---- MODULE Spec2Model ----
(***************************************************************************)
(* A model of the copy-on-write radix tree of radix-tree.go.               *)
(*                                                                         *)
(* The heap is explicit: nodes and the backing arrays of children slices   *)
(* are heap objects, a slice is (array, len), and every operation is the   *)
(* Go code statement by statement, in-place writes to backing arrays       *)
(* included.  A Go run-time panic (nil dereference, index or slice bound   *)
(* out of range) is the result field `fault`.                              *)
(***************************************************************************)
EXTENDS Integers, Sequences, FiniteSets, TLC

(* ------------------------------ bounds -------------------------------- *)

\* Longest key the operations are called with.
MaxLen == 3
\* Most keys a tree holds at once (Insert / ReplaceOrInsert of a further key
\* is not called on a tree that holds this many).
MaxKeys == 3
\* Longest key a tree and its snapshots are called with.
MaxCloneLen == 3
\* Longest key ReplaceOrInsert is called with on a tree and its snapshots.
MaxReplaceLen == 1

\* The byte values keys are made of.
Bytes == {1, 2}
\* The byte values the keys of a tree and its snapshots are made of.
CloneBytes == {1}

\* Longest key of a tree written with a failing marshaler.
MaxMarshalLen == 2
\* The producer and the consumer of ReBuildTree run step by step: the longest
\* stream, the records of a full batch (bufferSize, scaled down) and the
\* batches the channel holds (its capacity, scaled down).
MaxPipeStream == 9
BatchSize == 3
ChanCap == 2
\* Longest stream ReBuildTree is called on directly.
MaxStream == 5

KeysOver(B, n) == UNION {[1..m -> B] : m \in 1..n}
Keys == KeysOver(Bytes, MaxLen)
CloneKeys == KeysOver(CloneBytes, MaxCloneLen)
ReplaceKeys == KeysOver(CloneBytes, MaxReplaceLen)

(* ------------------------------ values -------------------------------- *)

\* interface{} values: nil, or a byte slice (what the tests store).
NilValue == [nil |-> TRUE, data |-> <<>>]
Val(d) == [nil |-> FALSE, data |-> d]
\* var Empty = []byte{'e','m','p','t','y'}
Empty == Val(<<101, 109, 112, 116, 121>>)
\* The values ReplaceOrInsert is called with (nil included: it is tolerated).
UserValues == {Val(<<7>>)}

(* ------------------------------- heap --------------------------------- *)

\* F(x), with x computed once, before F uses it.
With(x, F(_)) == CHOOSE y \in {F(v) : v \in {x}} : TRUE

NilNode == 0
NilSlice == [arr |-> 0, len |-> 0]
EmptyHeap == [nodes |-> <<>>, arrs |-> <<>>]

Cap(h, sl) == IF sl.arr = 0 THEN 0 ELSE Len(h.arrs[sl.arr])
\* children[i], i counted from 0 as in Go; the caller checks i < len.
At(h, sl, i) == h.arrs[sl.arr][i + 1]
Elems(h, sl) == [i \in 1..sl.len |-> h.arrs[sl.arr][i]]

\* new(node): the free list is always empty, since nothing ever calls freeNode.
newNode(h, rec) ==
    [h |-> [h EXCEPT !.nodes = Append(@, rec)], node |-> Len(h.nodes) + 1]

newRNode(h, cow, prefix, value) ==
    newNode(h, [value |-> value, cow |-> cow, children |-> NilSlice, prefix |-> prefix])

\* make(children, len, cap) followed by copy: a new backing array.
makeArray(h, elems, cap) ==
    [h |-> [h EXCEPT !.arrs = Append(@, [i \in 1..cap |->
                      IF i <= Len(elems) THEN elems[i] ELSE NilNode])],
     arr |-> Len(h.arrs) + 1]

\* Go's append growth for a full slice of pointers: 0 -> 1, then doubling.
growCap(c) == IF c = 0 THEN 1 ELSE 2 * c

(* ----------------------------- children ------------------------------- *)

\* sort.Search(len(children), func(i) { return first < children[i].prefix[0] }):
\* the binary search itself; -1 when the predicate faults.
RECURSIVE Search(_, _, _, _, _)
Search(h, sl, first, i, j) ==
    IF i >= j THEN i
    ELSE LET m == (i + j) \div 2
             c == At(h, sl, m)
         IN  IF c = NilNode THEN -1
             ELSE IF h.nodes[c].prefix = <<>> THEN -1
             ELSE IF ~(first < h.nodes[c].prefix[1])
                  THEN Search(h, sl, first, m + 1, j)
                  ELSE Search(h, sl, first, i, m)

findNode(h, sl, first) ==
    With(Search(h, sl, first, 0, sl.len), LAMBDA i :
        IF i = -1 THEN [fault |-> TRUE, index |-> 0, child |-> NilNode]
        ELSE IF i > 0
        THEN LET c == At(h, sl, i - 1)
             IN  IF c = NilNode THEN [fault |-> TRUE, index |-> 0, child |-> NilNode]
                 ELSE IF h.nodes[c].prefix = <<>>
                 THEN [fault |-> TRUE, index |-> 0, child |-> NilNode]
                 ELSE IF h.nodes[c].prefix[1] = first
                 THEN [fault |-> FALSE, index |-> i - 1, child |-> c]
                 ELSE [fault |-> FALSE, index |-> i, child |-> NilNode]
        ELSE [fault |-> FALSE, index |-> i, child |-> NilNode])

\* *children = append(*children, nil): in place when there is spare capacity.
appendNil(h, sl) ==
    IF sl.len < Cap(h, sl)
    THEN [h |-> [h EXCEPT !.arrs[sl.arr][sl.len + 1] = NilNode],
          sl |-> [arr |-> sl.arr, len |-> sl.len + 1]]
    ELSE With(makeArray(h, Append(Elems(h, sl), NilNode), growCap(Cap(h, sl))), LAMBDA m :
             [h |-> m.h, sl |-> [arr |-> m.arr, len |-> sl.len + 1]])

\* insetAt that puts the node last, whatever the index.
insetAt_last(h, sl, node, index) ==
    With(appendNil(h, sl), LAMBDA a :
        [h |-> [a.h EXCEPT !.arrs[a.sl.arr][a.sl.len] = node], sl |-> a.sl])

\* children.insetAt(node, index): the append, the shift and the store.
insetAt(h, sl, node, index) ==
    With(appendNil(h, sl), LAMBDA a :
        [h |-> [a.h EXCEPT !.arrs[a.sl.arr] =
                   [p \in 1..Len(@) |->
                       IF p = index + 1 THEN node
                       ELSE IF p > index + 1 /\ p <= a.sl.len THEN @[p - 1]
                       ELSE @[p]]],
         sl |-> a.sl])

\* deleteAt that shifts nothing and keeps the length.
deleteAt_keeps(h, sl, index) == [h |-> h, sl |-> sl]

\* children.deleteAt(index): the shift, the nil in the last cell, the reslice.
deleteAt(h, sl, index) ==
    [h |-> [h EXCEPT !.arrs[sl.arr] =
               [p \in 1..Len(@) |->
                   IF p = sl.len THEN NilNode
                   ELSE IF p >= index + 1 /\ p < sl.len THEN @[p + 1]
                   ELSE @[p]]],
     sl |-> [arr |-> sl.arr, len |-> sl.len - 1]]

(* ------------------------- copy on write ------------------------------ *)

\* n.mutableFor(cow) that copies the children of n too, one level down.
mutableFor_deep(h, n, cow) ==
    IF h.nodes[n].cow = cow THEN [h |-> h, node |-> n]
    ELSE LET nd == h.nodes[n]
             kids == Elems(h, nd.children)
             h1 == [h EXCEPT !.nodes = @ \o [i \in 1..Len(kids) |-> h.nodes[kids[i]]]]
         IN  With(IF nd.children.len = 0
                  THEN [h |-> h1, arr |-> 0]
                  ELSE makeArray(h1, [i \in 1..Len(kids) |-> Len(h.nodes) + i],
                                 Cap(h, nd.children)), LAMBDA m :
                 newNode(m.h, [value |-> nd.value, cow |-> cow,
                               children |-> [arr |-> m.arr, len |-> nd.children.len],
                               prefix |-> nd.prefix]))

\* n.mutableFor(cow): n itself when cow owns it, else a copy with its own
\* backing array (a nil slice when n has no children).
mutableFor(h, n, cow) ==
    IF h.nodes[n].cow = cow THEN [h |-> h, node |-> n]
    ELSE LET nd == h.nodes[n]
         IN  With(IF nd.children.len = 0
                  THEN [h |-> h, arr |-> 0]
                  ELSE makeArray(h, Elems(h, nd.children), Cap(h, nd.children)), LAMBDA m :
                 newNode(m.h, [value |-> nd.value, cow |-> cow,
                               children |-> [arr |-> m.arr, len |-> nd.children.len],
                               prefix |-> nd.prefix]))

\* children.mutableChild(cow, index): writes the copy into the backing array.
mutableChild(h, sl, cow, index) ==
    LET c == At(h, sl, index)
    IN  IF c = NilNode THEN [h |-> h, node |-> NilNode, fault |-> TRUE]
        ELSE IF h.nodes[c].cow # cow
        THEN With(mutableFor(h, c, cow), LAMBDA m :
                 [h |-> [m.h EXCEPT !.arrs[sl.arr][index + 1] = m.node],
                  node |-> m.node, fault |-> FALSE])
        ELSE [h |-> h, node |-> c, fault |-> FALSE]

\* n.mutableChild(i): c := n.children[i].mutableFor(n.cow); n.children[i] = c.
nodeMutableChild(h, n, i) ==
    LET sl == h.nodes[n].children
        c == At(h, sl, i)
    IN  IF c = NilNode THEN [h |-> h, node |-> NilNode, fault |-> TRUE]
        ELSE With(mutableFor(h, c, h.nodes[n].cow), LAMBDA m :
                 [h |-> [m.h EXCEPT !.arrs[sl.arr][i + 1] = m.node],
                  node |-> m.node, fault |-> FALSE])

(* ------------------------------- node --------------------------------- *)

RECURSIVE prefixLenFrom(_, _, _)
prefixLenFrom(k1, k2, i) ==
    IF i < Len(k1) /\ i < Len(k2) /\ k1[i + 1] = k2[i + 1]
    THEN prefixLenFrom(k1, k2, i + 1)
    ELSE i

prefixLen(k1, k2) == prefixLenFrom(k1, k2, 0)

\* key[i:]
From(key, i) == SubSeq(key, i + 1, Len(key))
\* key[:i]
UpTo(key, i) == SubSeq(key, 1, i)

\* n.merge(): n takes the prefix, value and children slice of its first
\* child, then old[0] = nil in n's former backing array.
merge(h, n) ==
    LET nd == h.nodes[n]
        c == At(h, nd.children, 0)
    IN  IF c = NilNode THEN [h |-> h, fault |-> TRUE]
        ELSE [h |-> [h EXCEPT !.nodes[n] =
                        [value |-> h.nodes[c].value, cow |-> nd.cow,
                         children |-> h.nodes[c].children,
                         prefix |-> nd.prefix \o h.nodes[c].prefix],
                     !.arrs[nd.children.arr][1] = NilNode],
              fault |-> FALSE]

\* The new leaf of replaceOrInsert put first among n.children, whatever the
\* index.
insertLeaf_first(h, n, key, val, index) ==
    With(newRNode(h, h.nodes[n].cow, key, val), LAMBDA r :
    With(insetAt(r.h, r.h.nodes[n].children, r.node, 0), LAMBDA ins :
        [h |-> [ins.h EXCEPT !.nodes[n].children = ins.sl],
         ret |-> NilValue, fault |-> FALSE]))

\* The new leaf of replaceOrInsert: newRNode(n.cow, bytesCopy(key), val)
\* put into n.children at index.
insertLeaf(h, n, key, val, index) ==
    With(newRNode(h, h.nodes[n].cow, key, val), LAMBDA r :
    With(insetAt(r.h, r.h.nodes[n].children, r.node, index), LAMBDA ins :
        [h |-> [ins.h EXCEPT !.nodes[n].children = ins.sl],
         ret |-> NilValue, fault |-> FALSE]))

\* The split branch of replaceOrInsert (index < len(n.prefix)): a copy of n
\* with the rest of the prefix becomes the only child of n, which keeps the
\* common part; then the rest of the key becomes a second child, or n takes
\* the value.
split(h, n, key, val, index) ==
    LET nd == h.nodes[n]
    IN  With(newNode(h, [nd EXCEPT !.prefix = From(nd.prefix, index)]), LAMBDA c :
        With(makeArray(c.h, <<c.node>>, 2), LAMBDA m :
        With([m.h EXCEPT !.nodes[n] =
                 [value |-> NilValue, cow |-> nd.cow,
                  children |-> [arr |-> m.arr, len |-> 1],
                  prefix |-> UpTo(nd.prefix, index)]], LAMBDA h1 :
            IF Len(From(key, index)) > 0
            THEN With(findNode(h1, h1.nodes[n].children, From(key, index)[1]), LAMBDA f :
                     IF f.fault THEN [h |-> h, ret |-> NilValue, fault |-> TRUE]
                     ELSE insertLeaf(h1, n, From(key, index), val, f.index))
            ELSE [h |-> [h1 EXCEPT !.nodes[n].value = val],
                  ret |-> NilValue, fault |-> FALSE])))

RECURSIVE replaceOrInsert(_, _, _, _)
replaceOrInsert(h, n, key, val) ==
    LET nd == h.nodes[n]
        index == prefixLen(nd.prefix, key)
        k == From(key, index)
    IN  IF nd.prefix = key
        THEN [h |-> [h EXCEPT !.nodes[n].value = val], ret |-> nd.value, fault |-> FALSE]
        ELSE IF index = Len(nd.prefix)
        THEN IF k = <<>> THEN [h |-> h, ret |-> NilValue, fault |-> TRUE]
             ELSE With(findNode(h, nd.children, k[1]), LAMBDA f :
                      IF f.fault THEN [h |-> h, ret |-> NilValue, fault |-> TRUE]
                      ELSE IF f.child = NilNode
                      THEN insertLeaf(h, n, k, val, f.index)
                      ELSE With(nodeMutableChild(h, n, f.index), LAMBDA mc :
                               IF mc.fault THEN [h |-> h, ret |-> NilValue, fault |-> TRUE]
                               ELSE replaceOrInsert(mc.h, mc.node, k, val)))
        ELSE split(h, n, key, val, index)

\* children.delete that never merges.
mergeIf_never(h, sl, c, cond) == [h |-> h, sl |-> sl, fault |-> FALSE]

\* The merge children.delete ends with, when it applies.
mergeIf(h, sl, c, cond) ==
    IF cond
    THEN With(merge(h, c), LAMBDA g : [h |-> g.h, sl |-> sl, fault |-> g.fault])
    ELSE [h |-> h, sl |-> sl, fault |-> FALSE]

\* children.delete(cow, key) on the slice stored at some place; the result
\* carries the slice to store back at that place.
RECURSIVE delete(_, _, _, _)
delete(h, sl, cow, key) ==
    IF key = <<>> THEN [h |-> h, sl |-> sl, fault |-> TRUE]
    ELSE
    With(findNode(h, sl, key[1]), LAMBDA f :
        IF f.fault THEN [h |-> h, sl |-> sl, fault |-> TRUE]
        ELSE IF f.child = NilNode THEN [h |-> h, sl |-> sl, fault |-> FALSE]
        ELSE
        With(mutableChild(h, sl, cow, f.index), LAMBDA mc :
            IF mc.fault THEN [h |-> h, sl |-> sl, fault |-> TRUE]
            ELSE
            LET c == mc.node
                cd == mc.h.nodes[mc.node]
            IN
            IF Len(key) < Len(cd.prefix) \/ UpTo(key, Len(cd.prefix)) # cd.prefix
            THEN [h |-> mc.h, sl |-> sl, fault |-> FALSE]
            ELSE IF Len(cd.prefix) = Len(key)
            THEN IF cd.children.len = 0
                 THEN With(deleteAt(mc.h, sl, f.index), LAMBDA d :
                          [h |-> [d.h EXCEPT !.nodes[c].prefix = <<>>],
                           sl |-> d.sl, fault |-> FALSE])
                 ELSE IF cd.children.len = 1
                 THEN mergeIf(mc.h, sl, c, TRUE)
                 ELSE [h |-> [mc.h EXCEPT !.nodes[c].value = NilValue],
                       sl |-> sl, fault |-> FALSE]
            ELSE IF cd.children.len = 0
            THEN [h |-> mc.h, sl |-> sl, fault |-> FALSE]
            ELSE With(delete(mc.h, cd.children, cow, From(key, Len(cd.prefix))), LAMBDA r :
                     IF r.fault THEN [h |-> h, sl |-> sl, fault |-> TRUE]
                     ELSE mergeIf([r.h EXCEPT !.nodes[c].children = r.sl], sl, c,
                                  r.sl.len = 1 /\ r.h.nodes[c].value = NilValue))))

\* children.walk(stack, f) from child i on, with a visitor that always
\* returns true: the visits in order, each with the prefix segments passed.
RECURSIVE walk(_, _, _, _)
walk(h, sl, i, stack) ==
    IF i >= sl.len THEN [fault |-> FALSE, out |-> <<>>]
    ELSE LET c == At(h, sl, i)
             nd == h.nodes[c]
             own == IF nd.value # NilValue
                    THEN <<[prefixes |-> Append(stack, nd.prefix), value |-> nd.value]>>
                    ELSE <<>>
         IN  IF c = NilNode THEN [fault |-> TRUE, out |-> <<>>]
             ELSE With(walk(h, nd.children, 0, Append(stack, nd.prefix)), LAMBDA sub :
                      IF sub.fault
                      THEN [fault |-> TRUE, out |-> own \o sub.out]
                      ELSE With(walk(h, sl, i + 1, stack), LAMBDA rest :
                               [fault |-> rest.fault, out |-> own \o sub.out \o rest.out]))

\* The key a visitor is called for: the prefix segments joined.
RECURSIVE JoinAll(_)
JoinAll(ss) == IF Len(ss) = 0 THEN <<>> ELSE Head(ss) \o JoinAll(Tail(ss))

\* children.walk that goes on with the next child when the walk of a child's
\* children returned false.
RECURSIVE walkUntil_siblings(_, _, _, _, _)
walkUntil_siblings(h, sl, i, stack, stops) ==
    IF i >= sl.len THEN [fault |-> FALSE, out |-> <<>>, ret |-> TRUE]
    ELSE LET c == At(h, sl, i)
             nd == h.nodes[c]
             own == IF nd.value # NilValue
                    THEN <<[prefixes |-> Append(stack, nd.prefix), value |-> nd.value]>>
                    ELSE <<>>
         IN  IF c = NilNode THEN [fault |-> TRUE, out |-> <<>>, ret |-> FALSE]
             ELSE IF nd.value # NilValue /\ JoinAll(Append(stack, nd.prefix)) \in stops
             THEN [fault |-> FALSE, out |-> own, ret |-> FALSE]
             ELSE With(walkUntil_siblings(h, nd.children, 0, Append(stack, nd.prefix), stops),
                       LAMBDA sub :
                      IF sub.fault
                      THEN [fault |-> TRUE, out |-> own \o sub.out, ret |-> FALSE]
                      ELSE With(walkUntil_siblings(h, sl, i + 1, stack, stops), LAMBDA rest :
                               [fault |-> rest.fault, out |-> own \o sub.out \o rest.out,
                                ret |-> rest.ret]))

\* children.walk(stack, f) from child i on, with a visitor that returns
\* false for the keys in `stops` and true for the others: the visits in
\* order, and what walk returns.
RECURSIVE walkUntil(_, _, _, _, _)
walkUntil(h, sl, i, stack, stops) ==
    IF i >= sl.len THEN [fault |-> FALSE, out |-> <<>>, ret |-> TRUE]
    ELSE LET c == At(h, sl, i)
             nd == h.nodes[c]
             own == IF nd.value # NilValue
                    THEN <<[prefixes |-> Append(stack, nd.prefix), value |-> nd.value]>>
                    ELSE <<>>
         IN  IF c = NilNode THEN [fault |-> TRUE, out |-> <<>>, ret |-> FALSE]
             ELSE IF nd.value # NilValue /\ JoinAll(Append(stack, nd.prefix)) \in stops
             THEN [fault |-> FALSE, out |-> own, ret |-> FALSE]
             ELSE With(walkUntil(h, nd.children, 0, Append(stack, nd.prefix), stops),
                       LAMBDA sub :
                      IF sub.fault \/ ~sub.ret
                      THEN [fault |-> sub.fault, out |-> own \o sub.out, ret |-> FALSE]
                      ELSE With(walkUntil(h, sl, i + 1, stack, stops), LAMBDA rest :
                               [fault |-> rest.fault, out |-> own \o sub.out \o rest.out,
                                ret |-> rest.ret]))

\* find that looks at the node it is called on only.
find_here(h, n, key) ==
    [fault |-> FALSE, ret |-> h.nodes[n].value # NilValue /\ h.nodes[n].prefix = key]

\* n.find(key)
RECURSIVE find(_, _, _)
find(h, n, key) ==
    LET nd == h.nodes[n]
        k == From(key, Len(nd.prefix))
    IN  IF nd.value # NilValue /\ nd.prefix = key
        THEN [fault |-> FALSE, ret |-> TRUE]
        ELSE IF Len(key) < Len(nd.prefix) THEN [fault |-> TRUE, ret |-> FALSE]
        ELSE IF k = <<>> THEN [fault |-> TRUE, ret |-> FALSE]
        ELSE With(findNode(h, nd.children, k[1]), LAMBDA f :
                 IF f.fault THEN [fault |-> TRUE, ret |-> FALSE]
                 ELSE IF f.child = NilNode THEN [fault |-> FALSE, ret |-> FALSE]
                 ELSE find(h, f.child, k))

(* ------------------------------- Tree --------------------------------- *)

\* New(): a context of its own, no children.
New == [cow |-> 1, children |-> NilSlice]

\* tree.Find(key)
Find(h, tree, key) ==
    IF tree.children.arr = 0 \/ Len(key) = 0
    THEN [fault |-> FALSE, ret |-> FALSE]
    ELSE With(findNode(h, tree.children, key[1]), LAMBDA f :
             IF f.fault THEN [fault |-> TRUE, ret |-> FALSE]
             ELSE IF f.child = NilNode THEN [fault |-> FALSE, ret |-> FALSE]
             ELSE find(h, f.child, key))

\* newRNode(tree.cow, key, val) put into tree.children at index.
insertTop(h, tree, key, val, index) ==
    With(newRNode(h, tree.cow, key, val), LAMBDA r :
    With(insetAt(r.h, tree.children, r.node, index), LAMBDA ins :
        [h |-> ins.h, tree |-> [tree EXCEPT !.children = ins.sl],
         ret |-> NilValue, fault |-> FALSE]))

\* The body shared by tree.ReplaceOrInsert(key, val) and tree.Insert(key)
\* after their guards.
treeInsert(h, tree, key, val) ==
    With(findNode(h, tree.children, key[1]), LAMBDA f :
        IF f.fault THEN [h |-> h, tree |-> tree, ret |-> NilValue, fault |-> TRUE]
        ELSE IF f.child = NilNode
        THEN insertTop(h, tree, key, val, f.index)
        ELSE With(mutableChild(h, tree.children, tree.cow, f.index), LAMBDA mc :
                 IF mc.fault THEN [h |-> h, tree |-> tree, ret |-> NilValue, fault |-> TRUE]
                 ELSE With(replaceOrInsert(mc.h, mc.node, key, val), LAMBDA r :
                          [h |-> r.h, tree |-> tree, ret |-> r.ret, fault |-> r.fault])))

\* ReplaceOrInsert that stores the value and always returns nil.
ReplaceOrInsert_nil(h, tree, key, val) ==
    IF Len(key) = 0 \/ val = NilValue
    THEN [h |-> h, tree |-> tree, ret |-> NilValue, fault |-> FALSE]
    ELSE [treeInsert(h, tree, key, val) EXCEPT !.ret = NilValue]

ReplaceOrInsert(h, tree, key, val) ==
    IF Len(key) = 0 \/ val = NilValue
    THEN [h |-> h, tree |-> tree, ret |-> NilValue, fault |-> FALSE]
    ELSE treeInsert(h, tree, key, val)

\* Insert that leaves a key that is present as it is.
Insert_ifAbsent(h, tree, key) ==
    IF Len(key) = 0 \/ Find(h, tree, key).ret
    THEN [h |-> h, tree |-> tree, ret |-> NilValue, fault |-> FALSE]
    ELSE [treeInsert(h, tree, key, Empty) EXCEPT !.ret = NilValue]

Insert(h, tree, key) ==
    IF Len(key) = 0
    THEN [h |-> h, tree |-> tree, ret |-> NilValue, fault |-> FALSE]
    ELSE [treeInsert(h, tree, key, Empty) EXCEPT !.ret = NilValue]

Delete(h, tree, key) ==
    With(delete(h, tree.children, tree.cow, key), LAMBDA d :
        [h |-> d.h, tree |-> [tree EXCEPT !.children = d.sl],
         ret |-> NilValue, fault |-> d.fault])

\* tree.Walk(f) with a visitor that always returns true.
Walk(h, tree) == walk(h, tree.children, 0, <<>>)

\* tree.Walk(f) with a visitor that returns false for the keys in `stops`.
WalkUntil(h, tree, stops) == walkUntil(h, tree.children, 0, <<>>, stops)

\* tree.Clone(): two new contexts, the top-level slice copied into a new
\* backing array of exactly its length; no node is copied.
Clone(h, tree, cow1, cow2) ==
    With(makeArray(h, Elems(h, tree.children), tree.children.len), LAMBDA m :
        [h |-> m.h,
         tree |-> [tree EXCEPT !.cow = cow2],
         clone |-> [cow |-> cow1,
                    children |-> [arr |-> m.arr, len |-> tree.children.len]]])

(* ------------------- the heap up to object identity ------------------- *)
(* Addresses are not observable and unreachable objects are collected:    *)
(* after each operation the reachable nodes and backing arrays are        *)
(* renumbered in traversal order, array cells beyond every slice that     *)
(* views them are cleared (append writes a cell before anything reads     *)
(* it), and a context that belongs to no tree any more becomes 0 (a       *)
(* node's context is only ever compared with a tree's current one).       *)

InSeq(s, x) == \E i \in 1..Len(s) : s[i] = x
Pos(s, x) == IF x = 0 THEN 0 ELSE CHOOSE i \in 1..Len(s) : s[i] = x

RECURSIVE Flatten(_)
Flatten(ss) == IF Len(ss) = 0 THEN <<>> ELSE Head(ss) \o Flatten(Tail(ss))

RECURSIVE Distinct(_, _)
Distinct(s, acc) ==
    IF Len(s) = 0 THEN acc
    ELSE IF Head(s) = 0 \/ InSeq(acc, Head(s)) THEN Distinct(Tail(s), acc)
    ELSE Distinct(Tail(s), Append(acc, Head(s)))

RECURSIVE Reach(_, _, _)
Reach(h, todo, seen) ==
    IF Len(todo) = 0 THEN seen
    ELSE IF Head(todo) = NilNode \/ InSeq(seen, Head(todo))
    THEN Reach(h, Tail(todo), seen)
    ELSE Reach(h, Elems(h, h.nodes[Head(todo)].children) \o Tail(todo),
               Append(seen, Head(todo)))

\* The longest slice among `slices` that views backing array a.
Viewed(slices, a) ==
    LET ls == {slices[i].len : i \in {j \in 1..Len(slices) : slices[j].arr = a}}
    IN  CHOOSE l \in ls : \A l2 \in ls : l2 <= l

\* The tree whose context c is, 0 when it is no tree's.
CowOf(trs, c) ==
    IF \E t \in 1..Len(trs) : trs[t].cow = c
    THEN CHOOSE t \in 1..Len(trs) : trs[t].cow = c
    ELSE 0

Normalize(h, trs) ==
    With(Reach(h, Flatten([t \in 1..Len(trs) |-> Elems(h, trs[t].children)]), <<>>), LAMBDA order :
    With([t \in 1..Len(trs) |-> trs[t].children]
             \o [i \in 1..Len(order) |-> h.nodes[order[i]].children], LAMBDA slices :
    With(Distinct([i \in 1..Len(slices) |-> slices[i].arr], <<>>), LAMBDA arrOrder :
        [h |-> [nodes |-> [i \in 1..Len(order) |->
                     [value |-> h.nodes[order[i]].value,
                      cow |-> CowOf(trs, h.nodes[order[i]].cow),
                      children |-> [arr |-> Pos(arrOrder, h.nodes[order[i]].children.arr),
                                    len |-> h.nodes[order[i]].children.len],
                      prefix |-> h.nodes[order[i]].prefix]],
                arrs |-> [j \in 1..Len(arrOrder) |->
                     With(Viewed(slices, arrOrder[j]), LAMBDA v :
                         [p \in 1..Len(h.arrs[arrOrder[j]]) |->
                             IF p <= v THEN Pos(order, h.arrs[arrOrder[j]][p])
                             ELSE NilNode])]],
         trees |-> [t \in 1..Len(trs) |->
                     [cow |-> t,
                      children |-> [arr |-> Pos(arrOrder, trs[t].children.arr),
                                    len |-> trs[t].children.len]]]])))

(* ------------------------------ encoder ------------------------------- *)

PushKey == 61
Push == 43
Pop == 45

\* binary.PutUvarint: seven bits a byte, low bits first, the top bit set on
\* every byte but the last.
RECURSIVE PutUvarint(_)
PutUvarint(u) ==
    IF u >= 128 THEN <<(u % 128) + 128>> \o PutUvarint(u \div 128) ELSE <<u>>

\* PutVarint without the zig-zag.
PutVarint_plain(x) == PutUvarint(x)

\* binary.PutVarint: zig-zag, then PutUvarint.
PutVarint(x) == PutUvarint(IF x >= 0 THEN 2 * x ELSE -(2 * x) - 1)

\* The marshal callback of the tests: the value is the byte slice itself.
\* `bad` is the set of values the callback fails for.
Marshal(v, bad) == [data |-> v.data, err |-> v \in bad]

\* The record WriteTo writes when it first visits a node.
openRecord(nd, data) ==
    IF nd.value # NilValue
    THEN <<PushKey>> \o PutVarint(Len(nd.prefix)) \o nd.prefix
                     \o PutVarint(Len(data)) \o data
    ELSE <<Push>> \o PutVarint(Len(nd.prefix)) \o nd.prefix

\* stack.push that pushes the children first to last, leaving the last on top.
pushAll_forward(stack, elems) ==
    stack \o [i \in 1..Len(elems) |-> [node |-> elems[i], visit |-> FALSE]]

\* stack.push(children...): the last child first, so that the first is on top.
pushAll(stack, elems) ==
    stack \o [i \in 1..Len(elems) |-> [node |-> elems[Len(elems) + 1 - i], visit |-> FALSE]]

\* The loop of WriteTo: `stack` is its stack (top last), `out` what the
\* writer has received so far.
RECURSIVE writeLoop(_, _, _, _)
writeLoop(h, stack, out, bad) ==
    IF Len(stack) = 0 THEN [written |-> out, n |-> Len(out), err |-> FALSE, fault |-> FALSE]
    ELSE LET item == stack[Len(stack)]
             rest == SubSeq(stack, 1, Len(stack) - 1)
             nd == h.nodes[item.node]
         IN
         IF item.node = NilNode
         THEN [written |-> out, n |-> 0, err |-> FALSE, fault |-> TRUE]
         ELSE IF item.visit THEN writeLoop(h, rest, out \o <<Pop>>, bad)
         ELSE IF nd.value # NilValue /\ Marshal(nd.value, bad).err
         THEN [written |-> out, n |-> 0, err |-> TRUE, fault |-> FALSE]
         ELSE IF nd.children.arr # 0
         THEN writeLoop(h, pushAll(Append(rest, [node |-> item.node, visit |-> TRUE]),
                                   Elems(h, nd.children)),
                        out \o openRecord(nd, Marshal(nd.value, bad).data), bad)
         ELSE writeLoop(h, rest,
                        out \o openRecord(nd, Marshal(nd.value, bad).data) \o <<Pop>>, bad)

\* tree.WriteTo(writer, marshaler)
WriteTo(h, tree, bad) ==
    writeLoop(h, pushAll(<<>>, Elems(h, tree.children)), <<>>, bad)

\* compress/gzip, as far as the tree relies on it: a stream that starts with
\* the gzip magic bytes and gives back the bytes written to it.
GzipMagic == <<31, 139>>
Gzip(bytes) == GzipMagic \o bytes
Gunzip(bytes) ==
    IF Len(bytes) >= 2 /\ SubSeq(bytes, 1, 2) = GzipMagic
    THEN [err |-> FALSE, bytes |-> SubSeq(bytes, 3, Len(bytes))]
    ELSE [err |-> TRUE, bytes |-> <<>>]

\* tree.WriteToWithGzip(writer, marshaler)
WriteToWithGzip(h, tree, bad) ==
    With(WriteTo(h, tree, bad), LAMBDA r :
        IF r.err \/ r.fault THEN [r EXCEPT !.written = <<>>, !.n = 0]
        ELSE [r EXCEPT !.written = Gzip(r.written)])

(* ------------------------------ decoder ------------------------------- *)

\* What the reader delivers is a sequence of bytes and of ReadErr, a read
\* that fails with an error other than io.EOF; the end of the sequence is
\* io.EOF.
ReadErr == 256

\* binary.ReadUvarint from position pos (counted from 1) of the stream:
\* u is the value so far, mul the weight of the next seven bits.
RECURSIVE ReadUvarint(_, _, _, _)
ReadUvarint(bytes, pos, u, mul) ==
    IF pos > Len(bytes) THEN [err |-> TRUE, value |-> 0, next |-> pos]
    ELSE IF bytes[pos] = ReadErr THEN [err |-> TRUE, value |-> 0, next |-> pos + 1]
    ELSE IF bytes[pos] < 128
    THEN [err |-> FALSE, value |-> u + bytes[pos] * mul, next |-> pos + 1]
    ELSE ReadUvarint(bytes, pos + 1, u + (bytes[pos] % 128) * mul, mul * 128)

\* binary.ReadVarint: ReadUvarint, then the zig-zag undone.
ReadVarint(bytes, pos) ==
    With(ReadUvarint(bytes, pos, 0, 1), LAMBDA r :
        [r EXCEPT !.value = IF r.value % 2 = 0 THEN r.value \div 2
                            ELSE -((r.value + 1) \div 2)])

\* readBytes of ReBuildTree: a varint length, then that many bytes.
\* fault: make([]byte, size) with a negative size.
readBytes(bytes, pos) ==
    With(ReadVarint(bytes, pos), LAMBDA r :
        IF r.err THEN [err |-> TRUE, fault |-> FALSE, data |-> <<>>, next |-> pos]
        ELSE IF r.value < 0 THEN [err |-> TRUE, fault |-> TRUE, data |-> <<>>, next |-> pos]
        ELSE IF r.next + r.value - 1 > Len(bytes)
        THEN [err |-> TRUE, fault |-> FALSE, data |-> <<>>, next |-> pos]
        ELSE IF \E i \in r.next..(r.next + r.value - 1) : bytes[i] = ReadErr
        THEN [err |-> TRUE, fault |-> FALSE, data |-> <<>>, next |-> pos]
        ELSE [err |-> FALSE, fault |-> FALSE,
              data |-> SubSeq(bytes, r.next, r.next + r.value - 1),
              next |-> r.next + r.value])

\* The unMarshal callback of the tests: the value is the data itself.
\* `bad` is the set of data the callback fails for.
UnMarshal(data, bad) == [value |-> Val(data), err |-> data \in bad]

PopCode == [op |-> Pop, prefix |-> <<>>, value |-> NilValue]
PushCode(prefix, value) == [op |-> Push, prefix |-> prefix, value |-> value]

\* The producer of ReBuildTree from position pos to its end: the records it
\* appended, and whether it stopped on an error (err) rather than on the end
\* of the stream.  opCode is what the one-byte buffer holds: a read that
\* fails other than by io.EOF leaves it as it is and the switch runs on it.
\* A keyed record is appended with op Push; a byte that is no opcode appends
\* nothing.
RECURSIVE produceFrom(_, _, _, _, _)
produceFrom(bytes, pos, ops, bad, opCode) ==
    IF pos > Len(bytes) THEN [ops |-> ops, err |-> FALSE, fault |-> FALSE]
    ELSE
    LET op == IF bytes[pos] = ReadErr THEN opCode ELSE bytes[pos]
    IN
    IF op = Pop
    THEN produceFrom(bytes, pos + 1, Append(ops, PopCode), bad, op)
    ELSE IF op = Push \/ op = PushKey
    THEN With(readBytes(bytes, pos + 1), LAMBDA p :
             IF p.err THEN [ops |-> ops, err |-> ~p.fault, fault |-> p.fault]
             ELSE IF op = Push
             THEN produceFrom(bytes, p.next, Append(ops, PushCode(p.data, NilValue)), bad, op)
             ELSE With(readBytes(bytes, p.next), LAMBDA d :
                      IF d.err THEN [ops |-> ops, err |-> ~d.fault, fault |-> d.fault]
                      ELSE IF UnMarshal(d.data, bad).err
                      THEN [ops |-> ops, err |-> TRUE, fault |-> FALSE]
                      ELSE produceFrom(bytes, d.next,
                                       Append(ops, PushCode(p.data, UnMarshal(d.data, bad).value)),
                                       bad, op)))
    ELSE produceFrom(bytes, pos + 1, ops, bad, op)

\* The producer from the start of the stream, its one-byte buffer zeroed.
produce(bytes, pos, ops, bad) == produceFrom(bytes, pos, ops, bad, 0)

\* One turn of the producer's loop at position pos: the end of the stream
\* (eof), a record appended (rec), a byte that is no opcode (skip), a failed
\* read of a length, a payload or a value (err), or a panic (fault).
producerStep(bytes, pos, opCode, bad) ==
    IF pos > Len(bytes)
    THEN [kind |-> "eof", rec |-> PopCode, next |-> pos, opCode |-> opCode]
    ELSE
    LET op == IF bytes[pos] = ReadErr THEN opCode ELSE bytes[pos]
        stop(r) == [kind |-> IF r.fault THEN "fault" ELSE "err", rec |-> PopCode,
                    next |-> pos, opCode |-> op]
    IN
    IF op = Pop THEN [kind |-> "rec", rec |-> PopCode, next |-> pos + 1, opCode |-> op]
    ELSE IF op = Push \/ op = PushKey
    THEN With(readBytes(bytes, pos + 1), LAMBDA p :
             IF p.err THEN stop(p)
             ELSE IF op = Push
             THEN [kind |-> "rec", rec |-> PushCode(p.data, NilValue),
                   next |-> p.next, opCode |-> op]
             ELSE With(readBytes(bytes, p.next), LAMBDA d :
                      IF d.err THEN stop(d)
                      ELSE IF UnMarshal(d.data, bad).err
                      THEN [kind |-> "err", rec |-> PopCode, next |-> pos, opCode |-> op]
                      ELSE [kind |-> "rec",
                            rec |-> PushCode(p.data, UnMarshal(d.data, bad).value),
                            next |-> d.next, opCode |-> op]))
    ELSE [kind |-> "skip", rec |-> PopCode, next |-> pos + 1, opCode |-> op]

\* A receive from opCodesCh that takes the batch sent last.
recv_last(ch) == [tokens |-> ch[Len(ch)], ch |-> SubSeq(ch, 1, Len(ch) - 1)]

\* tokens := <-opCodesCh, the receive of `for tokens := range opCodesCh`.
recv(ch) == [tokens |-> Head(ch), ch |-> Tail(ch)]

\* *curr = append(*curr, next)
appendNode(h, sl, node) ==
    With(appendNil(h, sl), LAMBDA a :
        [h |-> [a.h EXCEPT !.arrs[a.sl.arr][a.sl.len] = node], sl |-> a.sl])

\* The slice a *children of the consumer points at: 0 is &tree.children, a
\* node n is &n.children.
placeGet(h, tree, place) == IF place = 0 THEN tree.children ELSE h.nodes[place].children
placePut(h, tree, place, sl) ==
    IF place = 0 THEN [h |-> h, tree |-> [tree EXCEPT !.children = sl]]
    ELSE [h |-> [h EXCEPT !.nodes[place].children = sl], tree |-> tree]

\* The consumer of ReBuildTree over the records it receives, from record i
\* on: stack and curr are its variables (curr = -1 is the nil pointer).
RECURSIVE consume(_, _, _, _, _, _)
consume(ops, i, h, tree, stack, curr) ==
    IF i > Len(ops) THEN [err |-> "", h |-> h, tree |-> tree, stack |-> stack]
    ELSE IF ops[i].op = PushKey \/ ops[i].op = Push
    THEN LET stack1 == IF Len(stack) = 0 THEN <<0>> ELSE Append(stack, curr)
             curr1 == IF Len(stack) = 0 THEN 0 ELSE curr
         IN  IF curr1 = -1
             THEN [err |-> "stack error", h |-> h, tree |-> tree, stack |-> stack1]
             ELSE With(newRNode(h, tree.cow, ops[i].prefix, ops[i].value), LAMBDA r :
                  With(appendNode(r.h, placeGet(r.h, tree, curr1), r.node), LAMBDA a :
                  With(placePut(a.h, tree, curr1, a.sl), LAMBDA q :
                      consume(ops, i + 1, q.h, q.tree, stack1, r.node))))
    ELSE IF ops[i].op = Pop
    THEN IF Len(stack) = 0
         THEN [err |-> "stack error", h |-> h, tree |-> tree, stack |-> stack]
         ELSE consume(ops, i + 1, h, tree,
                      SubSeq(stack, 1, Len(stack) - 1), stack[Len(stack)])
    ELSE [err |-> "unkown opCode", h |-> h, tree |-> tree, stack |-> stack]

\* The records of a whole batch: the producer sends a batch when it holds
\* bufferSize records, and the last, partial one only at the end of the stream.
bufferSize == 1024

delivered(p) ==
    IF p.err \/ p.fault
    THEN SubSeq(p.ops, 1, (Len(p.ops) \div bufferSize) * bufferSize)
    ELSE p.ops

\* ReBuildTree that does not look at the stack once the records are consumed.
ReBuildTree_noStackCheck(bytes, bad) ==
    With(produce(bytes, 1, <<>>, bad), LAMBDA p :
    With(consume(delivered(p), 1, EmptyHeap, New, <<>>, -1), LAMBDA c :
        IF c.err # ""
        THEN [err |-> c.err, h |-> EmptyHeap, tree |-> New, fault |-> p.fault]
        ELSE IF p.err \/ p.fault
        THEN [err |-> "read", h |-> EmptyHeap, tree |-> New, fault |-> p.fault]
        ELSE [err |-> "", h |-> c.h, tree |-> c.tree, fault |-> FALSE]))

\* ReBuildTree that does not look at the producer's error once the records
\* are consumed.
ReBuildTree_noErrCheck(bytes, bad) ==
    With(produce(bytes, 1, <<>>, bad), LAMBDA p :
    With(consume(delivered(p), 1, EmptyHeap, New, <<>>, -1), LAMBDA c :
        IF c.err # ""
        THEN [err |-> c.err, h |-> EmptyHeap, tree |-> New, fault |-> p.fault]
        ELSE IF Len(c.stack) # 0
        THEN [err |-> "broken stack", h |-> EmptyHeap, tree |-> New, fault |-> p.fault]
        ELSE [err |-> "", h |-> c.h, tree |-> c.tree, fault |-> p.fault]))

\* ReBuildTree(reader, unMarshal): err = "" and the tree, or an error and no tree.
ReBuildTree(bytes, bad) ==
    With(produce(bytes, 1, <<>>, bad), LAMBDA p :
    With(consume(delivered(p), 1, EmptyHeap, New, <<>>, -1), LAMBDA c :
        IF c.err # ""
        THEN [err |-> c.err, h |-> EmptyHeap, tree |-> New, fault |-> p.fault]
        ELSE IF p.err \/ p.fault
        THEN [err |-> "read", h |-> EmptyHeap, tree |-> New, fault |-> p.fault]
        ELSE IF Len(c.stack) # 0
        THEN [err |-> "broken stack", h |-> EmptyHeap, tree |-> New, fault |-> FALSE]
        ELSE [err |-> "", h |-> c.h, tree |-> c.tree, fault |-> FALSE]))

\* ReBuildTreeWithGzip(reader, unMarshal)
ReBuildTreeWithGzip(bytes, bad) ==
    With(Gunzip(bytes), LAMBDA g :
        IF g.err THEN [err |-> "gzip", h |-> EmptyHeap, tree |-> New, fault |-> FALSE]
        ELSE ReBuildTree(g.bytes, bad))

(* --------------------------- the state machine ------------------------ *)

VARIABLES
    heap,       \* the nodes and backing arrays reachable from the trees
    trees,      \* trees[1] is the tree made by New(), trees[t > 1] its snapshots
    abs,        \* abs[t]: the map the calls on tree t define (last write wins)
    panic,      \* the call that ended in a run-time panic, if one did
    stream,     \* what WriteTo / WriteToWithGzip wrote, once called
    rebuilt,    \* what ReBuildTree / ReBuildTreeWithGzip returned, once called
    pipe,       \* the producer and the consumer of a ReBuildTree run step by step
    ctxs,       \* ctxs[t]: the copyOnWriteContext trees[t].cow points at
    pool,       \* a FreeList shared by goroutines that call newNode and freeNode
    legacy,     \* a legacy RTree, the keys inserted and not deleted, and how far the calls follow the test's scenario
    caller      \* a caller's reused line buffer and the node prefixes that are slices of it

vars == <<heap, trees, abs, panic, stream, rebuilt, pipe, ctxs, pool, legacy, caller>>

\* Most trees (the original and its snapshots) alive at once.
MaxTrees == 2

\* &copyOnWriteContext{freelist: NewFreeList(DefaultFreeListSize)}: the
\* context of New(), which points at the one FreeList New() makes.
NewContext == [freelist |-> 1]
\* cow1, cow2 := *tree.cow, *tree.cow: two copies of the context struct,
\* each with the freelist pointer of the original.
copyContexts(c) == [cow1 |-> c, cow2 |-> c]

\* Goroutines that call into one FreeList at a time, and the size of the
\* FreeList, DefaultFreeListSize scaled down.
MaxCallers == 3
PoolSize == 2
Callers == 1..MaxCallers

\* mutex: whether the FreeList's mutex is locked; nodes: len(freelist.nodes);
\* size: freelist.size; pc[c]: where goroutine c is in newNode or freeNode;
\* got[c]: whether its newNode took a node from the list.
NewFreeList(size) ==
    [mutex |-> FALSE, nodes |-> 0, size |-> size,
     pc |-> [c \in Callers |-> "idle"], got |-> [c \in Callers |-> FALSE]]

NoPool == NewFreeList(0)

\* A legacy tree before any call: tree.children is nil.
NilChildren == [nil |-> TRUE, elems |-> <<>>]
NoLegacy == [children |-> NilChildren, keys |-> {}, script |-> 0, fault |-> FALSE]

\* buf: the bytes of the caller's buffer; n: the length of the line in it;
\* views: the nodes whose prefix is a slice of the buffer, prefix[j] being
\* buf[off + j]; pc: whether the caller scans the next line or calls the tree
\* with the line; scans: the lines scanned.
NoCaller == [buf |-> <<>>, n |-> 0, views |-> {}, pc |-> "off", scans |-> 0]

NoPanic == [op |-> "", key |-> <<>>]
NoStream == [kind |-> "none", bytes |-> <<>>, n |-> 0, err |-> FALSE]
NotRebuilt == [done |-> FALSE, err |-> "", h |-> EmptyHeap, tree |-> New]
\* pc: where the producer goroutine is; pos, opCode, opCodes: its position in
\* the reader, its one-byte buffer and the batch it fills; ch, closed: the
\* channel opCodesCh; err: the variable err shared by the two; cpc, tokens: where
\* the consumer is and what is left of the batch it ranges over; consumed: the
\* records it has processed, of which its stack, curr and tree are a function.
NoPipe ==
    [pc |-> "off", pos |-> 1, opCode |-> 0, opCodes |-> <<>>, ch |-> <<>>,
     closed |-> FALSE, err |-> FALSE, cpc |-> "off", tokens |-> <<>>, consumed |-> <<>>]

Init ==
    /\ heap = EmptyHeap
    /\ trees = <<New>>
    /\ abs = <<{}>>
    /\ panic = NoPanic
    /\ stream = NoStream
    /\ rebuilt = NotRebuilt
    /\ pipe = NoPipe
    /\ ctxs = <<NewContext>>
    /\ pool = NoPool
    /\ legacy = NoLegacy
    /\ caller = NoCaller

\* Key by key, what Walk hands the visitor: the segments joined, and the value.
Joined(visits) ==
    [i \in 1..Len(visits) |-> [key |-> Flatten(visits[i].prefixes), value |-> visits[i].value]]
Range(s) == {s[i] : i \in 1..Len(s)}
KeysOf(m) == {e.key : e \in m}
Put(m, k, v) == {e \in m : e.key # k} \cup {[key |-> k, value |-> v]}
Remove(m, k) == {e \in m : e.key # k}

Running == panic = NoPanic /\ stream = NoStream

\* The tree may take key k: it holds k already or fewer than MaxKeys keys.
Room(t, k) == k \in KeysOf(abs[t]) \/ Cardinality(abs[t]) < MaxKeys

\* The state after a call on tree t that returned r; when the call panicked the
\* program is over.
Returned(t, r, op, k, m) ==
    IF r.fault
    THEN /\ panic' = [op |-> op, key |-> k]
         /\ UNCHANGED <<heap, trees, abs, stream, rebuilt, pipe, ctxs, pool, legacy, caller>>
    ELSE /\ \E n \in {Normalize(r.h, [trees EXCEPT ![t] = r.tree])} :
                 heap' = n.h /\ trees' = n.trees
         /\ abs' = [abs EXCEPT ![t] = m]
         /\ UNCHANGED <<panic, stream, rebuilt, pipe, ctxs, pool, legacy, caller>>

InsertOp(t, k) ==
    /\ Running
    /\ Room(t, k)
    /\ Returned(t, Insert(heap, trees[t], k), "Insert", k,
                IF k = <<>> THEN abs[t] ELSE Put(abs[t], k, Empty))

ReplaceOrInsertOp(t, k, v) ==
    /\ Running
    /\ Room(t, k)
    /\ Returned(t, ReplaceOrInsert(heap, trees[t], k, v), "ReplaceOrInsert", k,
                IF k = <<>> \/ v = NilValue THEN abs[t] ELSE Put(abs[t], k, v))

DeleteOp(t, k) ==
    /\ Running
    /\ Returned(t, Delete(heap, trees[t], k), "Delete", k, Remove(abs[t], k))

\* A further snapshot of tree t.
CloneOp(t) ==
    /\ Running
    /\ Len(trees) < MaxTrees
    /\ \E c \in {Clone(heap, trees[t], Len(trees) + 1, Len(trees) + 2)} :
       \E n \in {Normalize(c.h, Append([trees EXCEPT ![t] = c.tree], c.clone))} :
           heap' = n.h /\ trees' = n.trees
    /\ abs' = Append(abs, abs[t])
    /\ ctxs' = Append([ctxs EXCEPT ![t] = copyContexts(ctxs[t]).cow2],
                      copyContexts(ctxs[t]).cow1)
    /\ UNCHANGED <<panic, stream, rebuilt, pipe, pool, legacy, caller>>

Written(kind, w) == [kind |-> kind, bytes |-> w.written, n |-> w.n, err |-> w.err]
Rebuilt(r) == [done |-> TRUE, err |-> r.err, h |-> r.h, tree |-> r.tree]

WriteToOp ==
    /\ Running
    /\ stream' = With(WriteTo(heap, trees[1], {}), LAMBDA w : Written("plain", w))
    /\ UNCHANGED <<heap, trees, abs, panic, rebuilt, pipe, ctxs, pool, legacy, caller>>

WriteToWithGzipOp ==
    /\ Running
    /\ stream' = With(WriteToWithGzip(heap, trees[1], {}), LAMBDA w : Written("gzip", w))
    /\ UNCHANGED <<heap, trees, abs, panic, rebuilt, pipe, ctxs, pool, legacy, caller>>

ReBuildTreeOp ==
    /\ stream.kind = "plain"
    /\ ~rebuilt.done
    /\ rebuilt' = With(ReBuildTree(stream.bytes, {}), LAMBDA r : Rebuilt(r))
    /\ UNCHANGED <<heap, trees, abs, panic, stream, pipe, ctxs, pool, legacy, caller>>

ReBuildTreeWithGzipOp ==
    /\ stream.kind = "gzip"
    /\ ~rebuilt.done
    /\ rebuilt' = With(ReBuildTreeWithGzip(stream.bytes, {}), LAMBDA r : Rebuilt(r))
    /\ UNCHANGED <<heap, trees, abs, panic, stream, pipe, ctxs, pool, legacy, caller>>

\* One tree: every call with every key up to MaxLen, the empty key included,
\* then the tree written and read back.
Next ==
    \/ \E k \in Keys \cup {<<>>} : InsertOp(1, k)
    \/ \E k \in Keys \cup {<<>>}, v \in UserValues \cup {NilValue} : ReplaceOrInsertOp(1, k, v)
    \/ \E k \in Keys \cup {<<>>} : DeleteOp(1, k)
    \/ WriteToOp
    \/ WriteToWithGzipOp
    \/ ReBuildTreeOp
    \/ ReBuildTreeWithGzipOp

Spec == Init /\ [][Next]_vars

(* ReBuildTree called on any stream. *)

\* What the streams are made of: the opcodes, the varints 0, -1 and 1, a
\* byte that is no opcode, and a failed read.
StreamItems == {Push, PushKey, Pop, 0, 1, 2, 9, ReadErr}
Streams == UNION {[1..n -> StreamItems] : n \in 0..MaxStream}
\* The data the unMarshal callback fails for.
BadData == {<<9>>}

InitDecode ==
    /\ heap = EmptyHeap
    /\ trees = <<New>>
    /\ abs = <<{}>>
    /\ panic = NoPanic
    /\ stream \in {[kind |-> "plain", bytes |-> b, n |-> Len(b), err |-> FALSE] : b \in Streams}
    /\ rebuilt = NotRebuilt
    /\ pipe = NoPipe
    /\ ctxs = <<NewContext>>
    /\ pool = NoPool
    /\ legacy = NoLegacy
    /\ caller = NoCaller

\* ReBuildTree on the stream, with an unMarshal callback that fails for
\* BadData; a panic of the producer ends the program.
DecodeOp ==
    /\ panic = NoPanic
    /\ stream.kind = "plain"
    /\ ~rebuilt.done
    /\ \E r \in {ReBuildTree(stream.bytes, BadData)} :
          IF r.fault
          THEN panic' = [op |-> "ReBuildTree", key |-> <<>>] /\ rebuilt' = rebuilt
          ELSE rebuilt' = Rebuilt(r) /\ panic' = panic
    /\ UNCHANGED <<heap, trees, abs, stream, pipe, ctxs, pool, legacy, caller>>

NextDecode == DecodeOp

SpecDecode == InitDecode /\ [][NextDecode]_vars

(* ReBuildTree with its producer goroutine and its consumer interleaved. *)

PipeItems == {Push, PushKey, Pop, 0}

InitPipe ==
    /\ heap = EmptyHeap
    /\ trees = <<New>>
    /\ abs = <<{}>>
    /\ panic = NoPanic
    /\ \E n \in 0..MaxPipeStream : \E b \in [1..n -> PipeItems] :
          stream = [kind |-> "plain", bytes |-> b, n |-> n, err |-> FALSE]
    /\ rebuilt = NotRebuilt
    /\ pipe = [NoPipe EXCEPT !.pc = "run", !.cpc = "recv"]
    /\ ctxs = <<NewContext>>
    /\ pool = NoPool
    /\ legacy = NoLegacy
    /\ caller = NoCaller

\* One turn of the producer's loop up to the send: at the end of the stream
\* it leaves the loop; on an error it returns, and the deferred close closes
\* the channel; a full batch is to be sent next.
ProducerStep ==
    /\ panic = NoPanic
    /\ pipe.pc = "run"
    /\ \E r \in {producerStep(stream.bytes, pipe.pos, pipe.opCode, BadData)} :
          \/ /\ r.kind = "eof"
             /\ pipe' = [pipe EXCEPT !.pc = "last"]
             /\ panic' = panic
          \/ /\ r.kind = "err"
             /\ pipe' = [pipe EXCEPT !.pc = "closed", !.closed = TRUE, !.err = TRUE]
             /\ panic' = panic
          \/ /\ r.kind = "fault"
             /\ panic' = [op |-> "ReBuildTree", key |-> <<>>]
             /\ pipe' = pipe
          \/ /\ r.kind = "skip"
             /\ pipe' = [pipe EXCEPT !.pos = r.next, !.opCode = r.opCode]
             /\ panic' = panic
          \/ /\ r.kind = "rec"
             /\ pipe' = [pipe EXCEPT !.pos = r.next, !.opCode = r.opCode,
                                     !.opCodes = Append(pipe.opCodes, r.rec),
                                     !.pc = IF Len(pipe.opCodes) + 1 < BatchSize
                                            THEN "run" ELSE "send"]
             /\ panic' = panic
    /\ UNCHANGED <<heap, trees, abs, stream, rebuilt, ctxs, pool, legacy, caller>>

\* opCodesCh <- opCodes in the loop, which blocks while the channel is full.
ProducerSend ==
    /\ panic = NoPanic
    /\ pipe.pc = "send"
    /\ Len(pipe.ch) < ChanCap
    /\ pipe' = [pipe EXCEPT !.ch = Append(pipe.ch, pipe.opCodes), !.opCodes = <<>>,
                            !.pc = "run"]
    /\ UNCHANGED <<heap, trees, abs, panic, stream, rebuilt, ctxs, pool, legacy, caller>>

\* opCodesCh <- opCodes after the loop, then the deferred close.
ProducerLast ==
    /\ panic = NoPanic
    /\ pipe.pc = "last"
    /\ Len(pipe.ch) < ChanCap
    /\ pipe' = [pipe EXCEPT !.ch = Append(pipe.ch, pipe.opCodes), !.opCodes = <<>>,
                            !.pc = "closed", !.closed = TRUE]
    /\ UNCHANGED <<heap, trees, abs, panic, stream, rebuilt, ctxs, pool, legacy, caller>>

\* The consumer receives the next batch.
ConsumerRecv ==
    /\ panic = NoPanic
    /\ pipe.cpc = "recv"
    /\ pipe.ch # <<>>
    /\ pipe' = [pipe EXCEPT !.tokens = recv(pipe.ch).tokens, !.ch = recv(pipe.ch).ch,
                            !.cpc = IF recv(pipe.ch).tokens = <<>> THEN "recv" ELSE "loop"]
    /\ UNCHANGED <<heap, trees, abs, panic, stream, rebuilt, ctxs, pool, legacy, caller>>

\* The consumer processes the next record of its batch; a stack error makes
\* ReBuildTree return at once.
ConsumerStep ==
    /\ panic = NoPanic
    /\ pipe.cpc = "loop"
    /\ \E c \in {consume(Append(pipe.consumed, Head(pipe.tokens)), 1,
                          EmptyHeap, New, <<>>, -1)} :
          IF c.err # ""
          THEN /\ rebuilt' = Rebuilt([err |-> c.err, h |-> EmptyHeap, tree |-> New])
               /\ pipe' = [pipe EXCEPT !.consumed = Append(pipe.consumed, Head(pipe.tokens)),
                                       !.tokens = Tail(pipe.tokens), !.cpc = "done"]
          ELSE /\ rebuilt' = rebuilt
               /\ pipe' = [pipe EXCEPT !.consumed = Append(pipe.consumed, Head(pipe.tokens)),
                                       !.tokens = Tail(pipe.tokens),
                                       !.cpc = IF Len(pipe.tokens) = 1 THEN "recv" ELSE "loop"]
    /\ UNCHANGED <<heap, trees, abs, panic, stream, ctxs, pool, legacy, caller>>

\* The channel is closed and empty: the range loop ends and ReBuildTree
\* returns the producer's error, a broken stack, or the tree.
ConsumerReturn ==
    /\ panic = NoPanic
    /\ pipe.cpc = "recv"
    /\ pipe.ch = <<>>
    /\ pipe.closed
    /\ \E c \in {consume(pipe.consumed, 1, EmptyHeap, New, <<>>, -1)} :
          rebuilt' = Rebuilt(IF pipe.err
                             THEN [err |-> "read", h |-> EmptyHeap, tree |-> New]
                             ELSE IF Len(c.stack) # 0
                             THEN [err |-> "broken stack", h |-> EmptyHeap, tree |-> New]
                             ELSE [err |-> "", h |-> c.h, tree |-> c.tree])
    /\ pipe' = [pipe EXCEPT !.cpc = "done"]
    /\ UNCHANGED <<heap, trees, abs, panic, stream, ctxs, pool, legacy, caller>>

NextPipe ==
    \/ ProducerStep
    \/ ProducerSend
    \/ ProducerLast
    \/ ConsumerRecv
    \/ ConsumerStep
    \/ ConsumerReturn

SpecPipe == InitPipe /\ [][NextPipe]_vars

\* The same two goroutines under the Go scheduler: a goroutine that can take
\* its next step is run; one stopped at a channel operation is run once the
\* operation can proceed.
FairItems == {Push, Pop, 0}

InitPipeFair ==
    /\ heap = EmptyHeap
    /\ trees = <<New>>
    /\ abs = <<{}>>
    /\ panic = NoPanic
    /\ \E n \in 0..MaxPipeStream : \E b \in [1..n -> FairItems] :
          stream = [kind |-> "plain", bytes |-> b, n |-> n, err |-> FALSE]
    /\ rebuilt = NotRebuilt
    /\ pipe = [NoPipe EXCEPT !.pc = "run", !.cpc = "recv"]
    /\ ctxs = <<NewContext>>
    /\ pool = NoPool
    /\ legacy = NoLegacy
    /\ caller = NoCaller

SpecPipeFair ==
    /\ InitPipeFair
    /\ [][NextPipe]_vars
    /\ WF_vars(ProducerStep)
    /\ WF_vars(ProducerSend)
    /\ WF_vars(ProducerLast)
    /\ WF_vars(ConsumerRecv)
    /\ WF_vars(ConsumerStep)
    /\ WF_vars(ConsumerReturn)

(* FreeList.newNode and FreeList.freeNode called from several goroutines. *)

InitPool ==
    /\ heap = EmptyHeap
    /\ trees = <<New>>
    /\ abs = <<{}>>
    /\ panic = NoPanic
    /\ stream = NoStream
    /\ rebuilt = NotRebuilt
    /\ pipe = NoPipe
    /\ ctxs = <<NewContext>>
    /\ pool = NewFreeList(PoolSize)
    /\ legacy = NoLegacy
    /\ caller = NoCaller

\* A goroutine enters freelist.newNode or freelist.freeNode and comes to the
\* first statement, freelist.mutex.Lock().
CallNewNode(c) ==
    /\ pool.pc[c] = "idle"
    /\ pool' = [pool EXCEPT !.pc[c] = "newNode:55", !.got[c] = FALSE]
    /\ UNCHANGED <<heap, trees, abs, panic, stream, rebuilt, pipe, ctxs, legacy, caller>>

CallFreeNode(c) ==
    /\ pool.pc[c] = "idle"
    /\ pool' = [pool EXCEPT !.pc[c] = "freeNode:69"]
    /\ UNCHANGED <<heap, trees, abs, panic, stream, rebuilt, pipe, ctxs, legacy, caller>>

\* freelist.mutex.Lock(), at any of the places it is written: it waits until
\* the mutex is unlocked and locks it. After the one at the end of freeNode
\* the function returns.
MutexLock(c) ==
    /\ pool.pc[c] \in {"newNode:55", "freeNode:69", "freeNode:73"}
    /\ ~pool.mutex
    /\ pool' = [pool EXCEPT !.mutex = TRUE,
                            !.pc[c] = CASE pool.pc[c] = "newNode:55" -> "newNode:56"
                                        [] pool.pc[c] = "freeNode:69" -> "freeNode:70"
                                        [] pool.pc[c] = "freeNode:73" -> "idle"]
    /\ UNCHANGED <<heap, trees, abs, panic, stream, rebuilt, pipe, ctxs, legacy, caller>>

\* newNode with the mutex locked: takes the last node of the list if there
\* is one, unlocks, and returns it or a new node.
NewNodeTake(c) ==
    /\ pool.pc[c] = "newNode:56"
    /\ pool' = [pool EXCEPT !.nodes = IF pool.nodes # 0 THEN pool.nodes - 1 ELSE 0,
                            !.got[c] = (pool.nodes # 0),
                            !.mutex = FALSE,
                            !.pc[c] = "idle"]
    /\ UNCHANGED <<heap, trees, abs, panic, stream, rebuilt, pipe, ctxs, legacy, caller>>

\* freeNode with the mutex locked: keeps the node if the list is below its
\* size, and comes to the second freelist.mutex.Lock().
FreeNodePut(c) ==
    /\ pool.pc[c] = "freeNode:70"
    /\ pool' = [pool EXCEPT !.nodes = IF pool.nodes < pool.size THEN pool.nodes + 1
                                      ELSE pool.nodes,
                            !.pc[c] = "freeNode:73"]
    /\ UNCHANGED <<heap, trees, abs, panic, stream, rebuilt, pipe, ctxs, legacy, caller>>

NextPool ==
    \E c \in Callers :
        \/ CallNewNode(c)
        \/ CallFreeNode(c)
        \/ MutexLock(c)
        \/ NewNodeTake(c)
        \/ FreeNodePut(c)

\* A goroutine that can run is run, and a goroutine waiting for the mutex
\* gets it if it is unlocked again and again; nothing obliges a goroutine to
\* call.
SpecPool ==
    /\ InitPool
    /\ [][NextPool]_vars
    /\ \A c \in Callers :
          /\ SF_vars(MutexLock(c))
          /\ WF_vars(NewNodeTake(c))
          /\ WF_vars(FreeNodePut(c))

(* ------------------- the legacy key-only tree, RTree ------------------- *)

\* A node is referenced from one children slice only and no slice is shared,
\* so nodes are values: [key, prefix, children], children a slice that is
\* nil or holds the child nodes.
RTree_newRNode(prefix, key) == [key |-> key, prefix |-> prefix, children |-> NilChildren]

\* sort.Search(len(children), first < children[i].prefix[0]) between i and j.
RECURSIVE RTree_Search(_, _, _, _)
RTree_Search(elems, first, i, j) ==
    IF i >= j THEN i
    ELSE LET m == (i + j) \div 2
         IN  IF ~(first < elems[m + 1].prefix[1])
             THEN RTree_Search(elems, first, m + 1, j)
             ELSE RTree_Search(elems, first, i, m)

\* Children.FindNode: the index i of the search, and whether children[i-1]
\* begins with `first`.
FindNode(c, first) ==
    LET i == RTree_Search(c.elems, first, 0, Len(c.elems))
    IN  [index |-> i, hit |-> i > 0 /\ c.elems[i].prefix[1] = first]

\* Children.insetAt(node, index) and Children.deleteAt(index), index from 0.
RTree_insetAt(c, node, index) ==
    [nil |-> FALSE,
     elems |-> UpTo(c.elems, index) \o <<node>> \o From(c.elems, index)]

RTree_deleteAt(c, index) ==
    [nil |-> FALSE, elems |-> UpTo(c.elems, index) \o From(c.elems, index + 1)]

\* The merge of Children.delete: the node takes the key flag and the
\* children of its only child; the prefix it computes is not stored.
RTree_merge(child) ==
    [child EXCEPT !.key = child.children.elems[1].key,
                  !.children = child.children.elems[1].children]

\* Children.delete(key).
RECURSIVE RTree_delete(_, _)
RTree_delete(c, key) ==
    IF key = <<>> THEN [fault |-> TRUE, c |-> c]
    ELSE With(FindNode(c, key[1]), LAMBDA f :
        IF ~f.hit THEN [fault |-> FALSE, c |-> c]
        ELSE LET child == c.elems[f.index]
             IN  IF child.prefix = key
                 THEN IF Len(child.children.elems) = 0
                      THEN [fault |-> FALSE, c |-> RTree_deleteAt(c, f.index - 1)]
                      ELSE IF Len(child.children.elems) = 1
                      THEN [fault |-> FALSE,
                            c |-> [c EXCEPT !.elems[f.index] = RTree_merge(child)]]
                      ELSE [fault |-> FALSE, c |-> [c EXCEPT !.elems[f.index].key = FALSE]]
                 ELSE IF child.children.nil THEN [fault |-> FALSE, c |-> c]
                 ELSE IF Len(child.prefix) > Len(key) THEN [fault |-> TRUE, c |-> c]
                 ELSE With(RTree_delete(child.children, From(key, Len(child.prefix))),
                           LAMBDA d :
                     IF d.fault THEN [fault |-> TRUE, c |-> c]
                     ELSE IF Len(d.c.elems) = 1 /\ ~child.key
                     THEN [fault |-> FALSE,
                           c |-> [c EXCEPT !.elems[f.index] =
                                      RTree_merge([child EXCEPT !.children = d.c])]]
                     ELSE [fault |-> FALSE,
                           c |-> [c EXCEPT !.elems[f.index].children = d.c]]))

\* RNode.insert(key).
RECURSIVE RTree_insert(_, _)
RTree_insert(node, key) ==
    IF node.prefix = key THEN [node EXCEPT !.key = TRUE]
    ELSE LET index == prefixLen(node.prefix, key)
             rest == From(key, index)
         IN  IF index = Len(node.prefix)
             THEN With(FindNode(node.children, rest[1]), LAMBDA f :
                      IF ~f.hit
                      THEN [node EXCEPT !.children =
                               RTree_insetAt(node.children, RTree_newRNode(rest, TRUE), f.index)]
                      ELSE [node EXCEPT !.children.elems[f.index] =
                               RTree_insert(node.children.elems[f.index], rest)])
             ELSE LET child == [node EXCEPT !.prefix = From(node.prefix, index)]
                      one == [nil |-> FALSE, elems |-> <<child>>]
                  IN  IF Len(rest) > 0
                      THEN [key |-> FALSE, prefix |-> UpTo(node.prefix, index),
                            children |-> RTree_insetAt(one, RTree_newRNode(rest, TRUE),
                                                       FindNode(one, rest[1]).index)]
                      ELSE [key |-> TRUE, prefix |-> UpTo(node.prefix, index),
                            children |-> one]

\* RTree.Insert(key) and RTree.Delete(key) on tree.children.
RTree_Insert(c, key) ==
    IF Len(key) = 0 THEN c
    ELSE With(FindNode(c, key[1]), LAMBDA f :
             IF ~f.hit THEN RTree_insetAt(c, RTree_newRNode(key, TRUE), f.index)
             ELSE [c EXCEPT !.elems[f.index] = RTree_insert(c.elems[f.index], key)])

RTree_Delete(c, key) ==
    IF ~c.nil /\ Len(key) # 0 THEN RTree_delete(c, key) ELSE [fault |-> FALSE, c |-> c]

\* RTree.Walk with a visitor that returns true: the keys it is called with,
\* each the concatenation of the prefixes on the stack.
RECURSIVE walkWithStack(_, _, _)
walkWithStack(elems, i, stack) ==
    IF i > Len(elems) THEN <<>>
    ELSE (IF elems[i].key THEN <<stack \o elems[i].prefix>> ELSE <<>>)
         \o (IF ~elems[i].children.nil
             THEN walkWithStack(elems[i].children.elems, 1, stack \o elems[i].prefix)
             ELSE <<>>)
         \o walkWithStack(elems, i + 1, stack)

RTree_Walk(c) == walkWithStack(c.elems, 1, <<>>)

\* The keys of TestRTreeDeleteMerge and its calls in order.
aaa == <<97, 97, 97>>
bbb == <<98, 98, 98>>
ccc == <<99, 99, 99>>
ddd == <<100, 100, 100>>
LegacyKeys == {aaa, aaa \o bbb, aaa \o ccc, aaa \o ccc \o bbb, aaa \o ccc \o ddd}
Scenario ==
    << [op |-> "Insert", key |-> aaa], [op |-> "Insert", key |-> aaa \o bbb],
       [op |-> "Insert", key |-> aaa \o ccc], [op |-> "Insert", key |-> aaa \o ccc \o bbb],
       [op |-> "Insert", key |-> aaa \o ccc \o ddd],
       [op |-> "Delete", key |-> aaa], [op |-> "Delete", key |-> aaa \o ccc],
       [op |-> "Delete", key |-> aaa \o ccc \o bbb], [op |-> "Delete", key |-> aaa \o bbb] >>

\* script counts the calls while they are the scenario's, and is -1 after
\* any other call.
Followed(script, op, key) ==
    IF script >= 0 /\ script < Len(Scenario) /\ Scenario[script + 1] = [op |-> op, key |-> key]
    THEN script + 1
    ELSE -1

InitLegacy ==
    /\ heap = EmptyHeap
    /\ trees = <<New>>
    /\ abs = <<{}>>
    /\ panic = NoPanic
    /\ stream = NoStream
    /\ rebuilt = NotRebuilt
    /\ pipe = NoPipe
    /\ ctxs = <<NewContext>>
    /\ pool = NoPool
    /\ legacy = NoLegacy
    /\ caller = NoCaller

LegacyInsert(k) ==
    /\ ~legacy.fault
    /\ legacy' = [children |-> RTree_Insert(legacy.children, k),
                  keys |-> legacy.keys \cup {k},
                  script |-> Followed(legacy.script, "Insert", k),
                  fault |-> FALSE]
    /\ UNCHANGED <<heap, trees, abs, panic, stream, rebuilt, pipe, ctxs, pool, caller>>

LegacyDelete(k) ==
    /\ ~legacy.fault
    /\ \E d \in {RTree_Delete(legacy.children, k)} :
          legacy' = [children |-> d.c,
                     keys |-> legacy.keys \ {k},
                     script |-> Followed(legacy.script, "Delete", k),
                     fault |-> d.fault]
    /\ UNCHANGED <<heap, trees, abs, panic, stream, rebuilt, pipe, ctxs, pool, caller>>

NextLegacy ==
    \E k \in LegacyKeys :
        \/ LegacyInsert(k)
        \/ LegacyDelete(k)

SpecLegacy == InitLegacy /\ [][NextLegacy]_vars

(* -------- a caller that reads lines into one buffer (bufio.Scanner) -------- *)

\* The size of the caller's buffer, which is the longest line, and the lines
\* the caller scans.
MaxBuf == 2
MaxScans == 3
Lines == KeysOver(Bytes, MaxBuf)

\* The heap after the buffer's bytes became buf: every prefix that is a
\* slice of the buffer reads the new bytes.
Poke(h, views, buf) ==
    [h EXCEPT !.nodes =
        [i \in 1..Len(h.nodes) |->
            IF \E v \in views : v.node = i
            THEN LET v == CHOOSE v \in views : v.node = i
                 IN  [h.nodes[i] EXCEPT !.prefix = [j \in 1..Len(@) |-> buf[v.off + j]]]
            ELSE h.nodes[i]]]

\* The prefixes that are slices of the buffer after a call with key, a
\* slice of the buffer from its start, took heap h0 to h1: those that were;
\* the prefix of a node the call put at the top level, which is key itself
\* (newRNode(tree.cow, key, ...) without bytesCopy); and the rest
\* n.prefix[index:] a split of such a node gave to its new child.
Aliased(h0, h1, tree, key, views) ==
    views
    \cup (IF Len(key) # 0 /\ Len(h1.nodes) > Len(h0.nodes)
             /\ findNode(h0, tree.children, key[1]).child = NilNode
          THEN {[node |-> Len(h0.nodes) + 1, off |-> 0]}
          ELSE {})
    \cup {[node |-> c, off |-> v.off + Len(h1.nodes[v.node].prefix)] :
            <<v, c>> \in {<<v, c>> \in views \X ((Len(h0.nodes) + 1)..Len(h1.nodes)) :
                /\ Len(h1.nodes[v.node].prefix) < Len(h0.nodes[v.node].prefix)
                /\ InSeq(Elems(h1, h1.nodes[v.node].children), c)
                /\ h1.nodes[c].prefix = From(h0.nodes[v.node].prefix,
                                             Len(h1.nodes[v.node].prefix))}}

InitCaller ==
    /\ heap = EmptyHeap
    /\ trees = <<New>>
    /\ abs = <<{}>>
    /\ panic = NoPanic
    /\ stream = NoStream
    /\ rebuilt = NotRebuilt
    /\ pipe = NoPipe
    /\ ctxs = <<NewContext>>
    /\ pool = NoPool
    /\ legacy = NoLegacy
    /\ caller = [NoCaller EXCEPT !.buf = [i \in 1..MaxBuf |-> 0], !.pc = "scan"]

\* scanner.Scan(): the next line is read into the buffer, over the line
\* before it.
Scan(line) ==
    /\ panic = NoPanic
    /\ caller.pc = "scan"
    /\ caller.scans < MaxScans
    /\ \E buf \in {line \o From(caller.buf, Len(line))} :
          /\ caller' = [caller EXCEPT !.buf = buf, !.n = Len(line), !.pc = "call",
                                      !.scans = @ + 1]
          /\ heap' = Poke(heap, caller.views, buf)
    /\ UNCHANGED <<trees, abs, panic, stream, rebuilt, pipe, ctxs, pool, legacy>>

\* The state after tree.Insert or tree.ReplaceOrInsert with the line in the
\* buffer, scanner.Bytes(), returned r.
CalledWithBuf(r, op, m) ==
    IF r.fault
    THEN /\ panic' = [op |-> op, key |-> UpTo(caller.buf, caller.n)]
         /\ UNCHANGED <<heap, trees, abs, caller>>
    ELSE /\ heap' = r.h
         /\ trees' = <<r.tree>>
         /\ abs' = <<m>>
         /\ caller' = [caller EXCEPT !.pc = "scan",
                          !.views = Aliased(heap, r.h, trees[1],
                                            UpTo(caller.buf, caller.n), caller.views)]
         /\ panic' = panic

InsertBuf ==
    /\ panic = NoPanic
    /\ caller.pc = "call"
    /\ CalledWithBuf(Insert(heap, trees[1], UpTo(caller.buf, caller.n)), "Insert",
                     Put(abs[1], UpTo(caller.buf, caller.n), Empty))
    /\ UNCHANGED <<stream, rebuilt, pipe, ctxs, pool, legacy>>

ReplaceOrInsertBuf(v) ==
    /\ panic = NoPanic
    /\ caller.pc = "call"
    /\ CalledWithBuf(ReplaceOrInsert(heap, trees[1], UpTo(caller.buf, caller.n), v),
                     "ReplaceOrInsert", Put(abs[1], UpTo(caller.buf, caller.n), v))
    /\ UNCHANGED <<stream, rebuilt, pipe, ctxs, pool, legacy>>

NextCaller ==
    \/ \E line \in Lines : Scan(line)
    \/ InsertBuf
    \/ \E v \in UserValues : ReplaceOrInsertBuf(v)

SpecCaller == InitCaller /\ [][NextCaller]_vars

(* WriteTo with a marshaler that fails. *)

MarshalKeys == KeysOver(Bytes, MaxMarshalLen)
\* The values the marshaler callback fails for.
BadValues == UserValues

\* tree.WriteTo(writer, marshaler) with a marshaler that fails for BadValues;
\* the stream is what the writer has received when the call returns.
WriteToFailingOp ==
    /\ Running
    /\ stream' = With(WriteTo(heap, trees[1], BadValues), LAMBDA w : Written("plain", w))
    /\ UNCHANGED <<heap, trees, abs, panic, rebuilt, pipe, ctxs, pool, legacy, caller>>

NextMarshal ==
    \/ \E k \in MarshalKeys : InsertOp(1, k)
    \/ \E k \in MarshalKeys, v \in UserValues : ReplaceOrInsertOp(1, k, v)
    \/ \E k \in MarshalKeys : DeleteOp(1, k)
    \/ WriteToFailingOp

SpecMarshal == Init /\ [][NextMarshal]_vars

\* A tree and its snapshots, each called in any interleaving.
NextClone ==
    \/ \E t \in 1..Len(trees), k \in CloneKeys : InsertOp(t, k)
    \/ \E t \in 1..Len(trees), k \in ReplaceKeys, v \in UserValues : ReplaceOrInsertOp(t, k, v)
    \/ \E t \in 1..Len(trees), k \in CloneKeys : DeleteOp(t, k)
    \/ \E t \in 1..Len(trees) : CloneOp(t)

SpecClone == Init /\ [][NextClone]_vars

(* ------------------------------ properties ---------------------------- *)

\* What Walk hands the visitor is exactly the map m: no fault, one visit a
\* key, the segments of a visit joined are the key, the value is the key's.
Yields(w, m) ==
    /\ ~w.fault
    /\ Len(w.out) = Cardinality(m)
    /\ Range(Joined(w.out)) = m

\* The keys Walk hands the visitor, in the order of the visits.
WalkKeys(h, tree) ==
    With(Walk(h, tree), LAMBDA w : [i \in 1..Len(w.out) |-> Flatten(w.out[i].prefixes)])

\* Byte-lexicographic order, as bytes.Compare(a, b) < 0.
RECURSIVE LexLess(_, _)
LexLess(a, b) ==
    IF a = <<>> THEN b # <<>>
    ELSE IF b = <<>> THEN FALSE
    ELSE IF a[1] # b[1] THEN a[1] < b[1]
    ELSE LexLess(Tail(a), Tail(b))

IsPrefix(a, b) == Len(a) <= Len(b) /\ UpTo(b, Len(a)) = a

\* C1: on a single tree, after any calls of Insert, ReplaceOrInsert and
\* Delete, Walk visits exactly the keys of the map the calls define, each
\* once, with the segments joining to the key and with the value stored
\* last (Empty when Insert stored it).
C1_WalkIsTheMap ==
    With(Walk(heap, trees[1]), LAMBDA w : Yields(w, abs[1]))

\* C1: a tree of MaxKeys keys, some stored by Insert and some by
\* ReplaceOrInsert, with a branch node that holds no value.
C1_Witness ==
    /\ Cardinality(abs[1]) = MaxKeys
    /\ \E e \in abs[1] : e.value = Empty
    /\ \E e \in abs[1] : e.value \in UserValues
    /\ \E i \in 1..Len(heap.nodes) : heap.nodes[i].value = NilValue
    /\ Len(Walk(heap, trees[1]).out) = MaxKeys

\* C2: a call on a tree never shows in its snapshot nor in the tree it is a
\* snapshot of: Walk on each tree completes and yields the map that the
\* state at Clone time and the calls on that tree alone define.
C2_SnapshotIsolation ==
    \A t \in 1..Len(trees) : With(Walk(heap, trees[t]), LAMBDA w : Yields(w, abs[t]))

\* C3: Find(k) is true for every key k that is present.
C3_FindPresent ==
    \A e \in abs[1] : Find(heap, trees[1], e.key) = [fault |-> FALSE, ret |-> TRUE]

\* C3: a present key that extends another present key, found below it.
C3_Witness ==
    \E e1, e2 \in abs[1] :
        /\ e1.key # e2.key
        /\ IsPrefix(e1.key, e2.key)
        /\ Len(heap.nodes) >= 2
        /\ Find(heap, trees[1], e2.key).ret

\* C4: Find(k) is never true for a non-empty key k that is not present.
C4_FindAbsent ==
    \A k \in Keys \ KeysOf(abs[1]) : ~Find(heap, trees[1], k).ret

\* C5: Find returns for every key, the empty key included, and never faults.
C5_FindTotal ==
    \A k \in Keys \cup {<<>>} : ~Find(heap, trees[1], k).fault

\* C6: a Delete(k) of a present key k leaves a tree in which Find(k) returns
\* false and Walk yields every other key with its value, and k not.
C6_Deletion ==
    [][\A k \in KeysOf(abs[1]) :
          k \notin KeysOf(abs'[1]) =>
              /\ Find(heap', trees'[1], k) = [fault |-> FALSE, ret |-> FALSE]
              /\ With(Walk(heap', trees'[1]), LAMBDA w : Yields(w, Remove(abs[1], k)))]_vars

\* C7: Delete of a key that is not present, the empty key included, on any
\* tree, the empty tree included, returns normally and leaves Walk as it was.
C7_DeleteNeverFails ==
    \A k \in (Keys \cup {<<>>}) \ KeysOf(abs[1]) :
        With(Delete(heap, trees[1], k), LAMBDA d :
            ~d.fault /\ Walk(d.h, d.tree) = Walk(heap, trees[1]))

\* C8: no node of the tree holds no value and has one child or none.
C8_Canonical ==
    \A i \in 1..Len(heap.nodes) :
        heap.nodes[i].value = NilValue => heap.nodes[i].children.len >= 2

\* C8: a tree with a value-less branch node and a node all of whose
\* children were deleted.
C8_Witness ==
    /\ \E i \in 1..Len(heap.nodes) : heap.nodes[i].value = NilValue
    /\ \E i \in 1..Len(heap.nodes) :
          heap.nodes[i].children.len = 0 /\ heap.nodes[i].children.arr # 0

\* C9: the stream WriteTo (WriteToWithGzip) writes is written without error,
\* and ReBuildTree (ReBuildTreeWithGzip) makes of it, without error, a tree
\* whose Walk visits the keys of the written tree, each once, in the order
\* of the Walk of the written tree.
C9_RoundTrip ==
    /\ stream.kind # "none" => ~stream.err
    /\ rebuilt.done =>
          /\ rebuilt.err = ""
          /\ ~Walk(rebuilt.h, rebuilt.tree).fault
          /\ WalkKeys(rebuilt.h, rebuilt.tree) = WalkKeys(heap, trees[1])
          /\ Range(WalkKeys(rebuilt.h, rebuilt.tree)) = KeysOf(abs[1])
          /\ Len(WalkKeys(rebuilt.h, rebuilt.tree)) = Cardinality(abs[1])

\* C9: a tree of MaxKeys keys with a value-less branch node, written with
\* gzip and rebuilt.
C9_Witness ==
    /\ rebuilt.done
    /\ stream.kind = "gzip"
    /\ Cardinality(abs[1]) = MaxKeys
    /\ \E i \in 1..Len(rebuilt.h.nodes) : rebuilt.h.nodes[i].value = NilValue
    /\ Len(WalkKeys(rebuilt.h, rebuilt.tree)) = MaxKeys

\* C10: the keys Walk visits are in strictly ascending byte-lexicographic
\* order.
C10_WalkAscending ==
    With(WalkKeys(heap, trees[1]), LAMBDA ks :
        \A i \in 1..(Len(ks) - 1) : LexLess(ks[i], ks[i + 1]))

\* C10: Walk visits a key, then a key that extends it, then a key with a
\* greater first byte.
C10_Witness ==
    With(WalkKeys(heap, trees[1]), LAMBDA ks :
        /\ Len(ks) = 3
        /\ IsPrefix(ks[1], ks[2])
        /\ ks[1][1] < ks[3][1])

\* The value the map m holds for key k, nil when it holds none.
ValueOf(m, k) ==
    IF k \in KeysOf(m) THEN (CHOOSE e \in m : e.key = k).value ELSE NilValue

\* C11: once every key is deleted again, Walk visits nothing and the tree
\* has no top-level child (and no node at all), as a new tree.
C11_AllDeletedIsEmpty ==
    abs[1] = {} =>
        /\ trees[1].children.len = 0
        /\ Len(heap.nodes) = 0
        /\ Walk(heap, trees[1]) = [fault |-> FALSE, out |-> <<>>]

\* C11: an empty tree that had two top-level children or more.
C11_Witness ==
    /\ abs[1] = {}
    /\ panic = NoPanic
    /\ Cap(heap, trees[1].children) >= 2
    /\ trees[1].children.len = 0

\* C12: ReplaceOrInsert(k, v) with a non-empty k and a non-nil v returns the
\* value k had before the call, nil when k was not present, and after the
\* call k has the value v and every other key the value it had.
C12_ReplaceOrInsertReturnsOld ==
    Running =>
        \A k \in Keys, v \in UserValues :
            With(ReplaceOrInsert(heap, trees[1], k, v), LAMBDA r :
                /\ ~r.fault
                /\ r.ret = ValueOf(abs[1], k)
                /\ With(Walk(r.h, r.tree), LAMBDA w : Yields(w, Put(abs[1], k, v))))

\* C12: a tree in which one key has a value stored by Insert and another a
\* value stored by ReplaceOrInsert, and a key that is not present whose path
\* ends at a top-level branch node that holds no value.
C12_Witness ==
    /\ Running
    /\ \E e1, e2 \in abs[1] : e1.value = Empty /\ e2.value \in UserValues
    /\ \E n \in Range(Elems(heap, trees[1].children)) :
          /\ heap.nodes[n].value = NilValue
          /\ heap.nodes[n].prefix \in Keys \ KeysOf(abs[1])

\* C13: Insert(k) of a key k that is present changes nothing: Walk visits the
\* same keys with the same values as before the call.
C13_InsertPresentIsNoOp ==
    \A e \in abs[1] :
        With(Insert(heap, trees[1], e.key), LAMBDA r :
            ~r.fault /\ Walk(r.h, r.tree) = Walk(heap, trees[1]))

\* The nesting of a sequence of records: how many are open at its end, -1
\* when a close record comes with none open.
RECURSIVE Nesting(_, _, _)
Nesting(ops, i, open) ==
    IF i > Len(ops) THEN open
    ELSE IF ops[i].op = Pop
    THEN IF open = 0 THEN -1 ELSE Nesting(ops, i + 1, open - 1)
    ELSE Nesting(ops, i + 1, open + 1)

Balanced(ops) == Nesting(ops, 1, 0) = 0

\* The records of the stream, as the producer takes them.
Records(bytes) == produce(bytes, 1, <<>>, BadData).ops

NoTree(r) == r.err # "" /\ r.h = EmptyHeap /\ r.tree = New

\* The first flaw of a stream read record by record, as the format has it:
\* an opcode, a varint length and as many bytes, and for '=' a second length
\* and as many bytes.
Field(bytes, pos) ==
    IF pos > Len(bytes) THEN [flaw |-> "truncated", data |-> <<>>, next |-> pos]
    ELSE IF bytes[pos] = ReadErr THEN [flaw |-> "read error", data |-> <<>>, next |-> pos]
    ELSE IF bytes[pos] >= 128 THEN [flaw |-> "long varint", data |-> <<>>, next |-> pos]
    ELSE IF bytes[pos] % 2 = 1 THEN [flaw |-> "negative length", data |-> <<>>, next |-> pos]
    ELSE IF pos + bytes[pos] \div 2 > Len(bytes)
    THEN [flaw |-> "truncated", data |-> <<>>, next |-> pos]
    ELSE IF \E i \in (pos + 1)..(pos + bytes[pos] \div 2) : bytes[i] = ReadErr
    THEN [flaw |-> "read error", data |-> <<>>, next |-> pos]
    ELSE [flaw |-> "", data |-> SubSeq(bytes, pos + 1, pos + bytes[pos] \div 2),
          next |-> pos + bytes[pos] \div 2 + 1]

RECURSIVE Flaw(_, _)
Flaw(bytes, pos) ==
    IF pos > Len(bytes) THEN ""
    ELSE IF bytes[pos] = ReadErr THEN "opcode read error"
    ELSE IF bytes[pos] = Pop THEN Flaw(bytes, pos + 1)
    ELSE IF bytes[pos] \notin {Push, PushKey} THEN "unknown opcode"
    ELSE With(Field(bytes, pos + 1), LAMBDA p :
             IF p.flaw # "" THEN p.flaw
             ELSE IF bytes[pos] = Push THEN Flaw(bytes, p.next)
             ELSE With(Field(bytes, p.next), LAMBDA d :
                      IF d.flaw # "" THEN d.flaw
                      ELSE IF d.data \in BadData THEN "unmarshal error"
                      ELSE Flaw(bytes, d.next)))

C15_UnknownOpcodeFatal ==
    rebuilt.done /\ Flaw(stream.bytes, 1) = "unknown opcode" => rebuilt.err # ""

\* C16: ReBuildTree returns an error and no tree for every stream that ends
\* inside a varint or inside a prefix or value, or holds a value the
\* unMarshal callback fails for, whatever records precede the failure.
C16_NoPartialTree ==
    rebuilt.done /\ Flaw(stream.bytes, 1) \in {"truncated", "unmarshal error"} =>
        NoTree(rebuilt)

\* C16: a failure after records that balance.
C16_Witness ==
    /\ rebuilt.done
    /\ Flaw(stream.bytes, 1) \in {"truncated", "unmarshal error"}
    /\ Records(stream.bytes) # <<>>
    /\ Balanced(Records(stream.bytes))
    /\ NoTree(rebuilt)

\* C18: when the read of an opcode fails with an error other than the end of
\* the stream, ReBuildTree returns that error, and takes no record for the
\* failed read.
C18_ReadErrorAborts ==
    rebuilt.done /\ Flaw(stream.bytes, 1) = "opcode read error" => rebuilt.err = "read"

\* C17: when the marshaler fails for a value of the tree, WriteTo returns the
\* error and the writer has received no byte of the call.
C17_NoPartialOutput ==
    stream.kind = "plain" /\ stream.err => stream.bytes = <<>> /\ stream.n = 0

\* The records of a stream without flaw, read as the format has them: the
\* opcode of each, and the prefix of an opening one.
RECURSIVE Tokens(_, _)
Tokens(bytes, pos) ==
    IF pos > Len(bytes) THEN <<>>
    ELSE IF bytes[pos] = Pop
    THEN <<[op |-> Pop, prefix |-> <<>>]>> \o Tokens(bytes, pos + 1)
    ELSE With(Field(bytes, pos + 1), LAMBDA p :
             <<[op |-> bytes[pos], prefix |-> p.data]>>
             \o Tokens(bytes, IF bytes[pos] = Push THEN p.next
                              ELSE Field(bytes, p.next).next))

\* One opening record per node, '=' iff it has a value, then the records of
\* its children in their order, then its closing record.
RECURSIVE Parenthesized(_, _, _)
Parenthesized(h, elems, i) ==
    IF i > Len(elems) THEN <<>>
    ELSE With(h.nodes[elems[i]], LAMBDA nd :
             <<[op |-> IF nd.value # NilValue THEN PushKey ELSE Push,
                prefix |-> nd.prefix]>>
             \o Parenthesized(h, Elems(h, nd.children), 1)
             \o <<[op |-> Pop, prefix |-> <<>>]>>)
         \o Parenthesized(h, elems, i + 1)

\* C19: the stream WriteTo writes for a tree reached by Insert,
\* ReplaceOrInsert and Delete is fully parenthesized: one opening record per
\* node ('=' iff it has a value) and one closing record, each close matching
\* the node opened last and not yet closed, never more closes than opens in
\* a prefix of the stream, and as many at its end.
C19_FullyParenthesized ==
    stream.kind = "plain" =>
        /\ ~stream.err
        /\ Flaw(stream.bytes, 1) = ""
        /\ With(Tokens(stream.bytes, 1), LAMBDA ts :
               /\ ts = Parenthesized(heap, Elems(heap, trees[1].children), 1)
               /\ \A n \in 0..Len(ts) : Nesting(SubSeq(ts, 1, n), 1, 0) >= 0
               /\ Nesting(ts, 1, 0) = 0)

\* C19: the stream of a tree with a node whose children were all deleted, a
\* node without value, and a node with two children.
C19_Witness ==
    /\ stream.kind = "plain"
    /\ \E i \in 1..Len(heap.nodes) :
          heap.nodes[i].children.arr # 0 /\ heap.nodes[i].children.len = 0
    /\ \E i \in 1..Len(heap.nodes) :
          heap.nodes[i].value = NilValue /\ heap.nodes[i].children.len >= 2
    /\ Len(stream.bytes) > 0

\* C20: in every interleaving of the producer and the consumer of
\* ReBuildTree, the records the consumer has processed, then those of the
\* batch it holds, then those of the batches in the channel, are the records
\* of the stream in stream order, none lost, repeated or out of place; when
\* ReBuildTree returns a tree the consumer has processed them all, the last,
\* partial batch included, and the tree is the one the stream decodes to.
C20_DecoderFIFO ==
    pipe.pc # "off" =>
        /\ IsPrefix(pipe.consumed \o pipe.tokens \o Flatten(pipe.ch),
                    Records(stream.bytes))
        /\ rebuilt.done /\ rebuilt.err = "" =>
              /\ pipe.consumed = Records(stream.bytes)
              /\ With(ReBuildTree(stream.bytes, BadData), LAMBDA r :
                     r.err = "" /\ r.h = rebuilt.h /\ r.tree = rebuilt.tree)

\* C20: a tree returned after more than one batch, the last one partial.
C20_Witness ==
    /\ pipe.cpc = "done"
    /\ rebuilt.done
    /\ rebuilt.err = ""
    /\ Len(pipe.consumed) > BatchSize
    /\ Len(pipe.consumed) % BatchSize # 0

\* C21: Clone gives the tree and the clone two new contexts, distinct from
\* each other and from the context of every node there is, that point at
\* two independent pools; the clone's top-level children are a sequence of
\* its own holding the same nodes.
C21_CloneContexts ==
    [][Len(trees') = Len(trees) + 1 =>
          \E t \in 1..Len(trees) :
              /\ trees'[t].cow # trees'[Len(trees')].cow
              /\ \A i \in 1..Len(heap'.nodes) :
                    heap'.nodes[i].cow \notin {trees'[t].cow, trees'[Len(trees')].cow}
              /\ ctxs'[t].freelist # ctxs'[Len(trees')].freelist
              /\ trees'[Len(trees')].children.arr # trees'[t].children.arr
              /\ Elems(heap', trees'[Len(trees')].children) = Elems(heap', trees'[t].children)]_vars

\* C22: when the visitor returns false for a key, Walk has called it for the
\* keys before that one in Walk's order and for that key, and calls it for
\* no key after it: none below the node, none of a later sibling, none of
\* an outer level.
C22_WalkStops ==
    Running =>
        \A stops \in SUBSET KeysOf(abs[1]) :
            stops # {} =>
                With(WalkUntil(heap, trees[1], stops), LAMBDA w :
                    /\ ~w.fault
                    /\ ~w.ret
                    /\ Len(w.out) >= 1
                    /\ w.out = UpTo(Walk(heap, trees[1]).out, Len(w.out))
                    /\ Flatten(w.out[Len(w.out)].prefixes) \in stops
                    /\ \A i \in 1..(Len(w.out) - 1) : Flatten(w.out[i].prefixes) \notin stops)

\* C22: a tree where a key has a key below it and a key after it at an
\* outer level, so a Walk stopped at the first leaves both unvisited.
C22_Witness ==
    /\ Running
    /\ \E k, below, after \in KeysOf(abs[1]) :
          /\ k # below /\ IsPrefix(k, below)
          /\ ~IsPrefix(k, after) /\ LexLess(k, after)
          /\ Len(below) > Len(k) + 1
          /\ Len(WalkUntil(heap, trees[1], {k}).out) + 2 <= Len(Walk(heap, trees[1]).out)

\* The children sequences of a tree: the root's and that of every node
\* reachable from it.
ChildrenSeqs(h, tree) ==
    {tree.children} \cup {h.nodes[n].children : n \in Range(Reach(h, Elems(h, tree.children), <<>>))}

\* No nil child, no empty prefix, and first bytes strictly ascending.
Ordered(h, sl) ==
    /\ \A i \in 1..sl.len :
          h.arrs[sl.arr][i] # NilNode /\ h.nodes[h.arrs[sl.arr][i]].prefix # <<>>
    /\ \A i \in 1..(sl.len - 1) :
          h.nodes[h.arrs[sl.arr][i]].prefix[1] < h.nodes[h.arrs[sl.arr][i + 1]].prefix[1]

\* C23: after any calls of Insert, ReplaceOrInsert and Delete on a tree, in
\* every children sequence, the root's and every node's, each prefix is
\* non-empty and the first bytes of the prefixes are strictly ascending.
C23_SiblingOrder ==
    \A sl \in ChildrenSeqs(heap, trees[1]) : Ordered(heap, sl)

\* C23: a tree of MaxKeys keys with a split node: a branch without value
\* and with a prefix of two bytes holds two children, under a root with two
\* children.
C23_Witness ==
    /\ trees[1].children.len >= 2
    /\ \E i \in 1..Len(heap.nodes) :
          /\ heap.nodes[i].value = NilValue
          /\ heap.nodes[i].children.len >= 2
          /\ Len(heap.nodes[i].prefix) >= 2
    /\ Cardinality(abs[1]) = MaxKeys

\* The calls made on a tree and its snapshots.
CloneCalls ==
    [op : {"Insert", "Delete"}, key : CloneKeys, value : {Empty}]
        \cup [op : {"ReplaceOrInsert"}, key : ReplaceKeys, value : UserValues]

\* What a call returns and the heap it leaves, before anything is renumbered:
\* node i of the heap before the call is node i after it.
Call(h, tree, c) ==
    IF c.op = "Insert" THEN Insert(h, tree, c.key)
    ELSE IF c.op = "Delete" THEN Delete(h, tree, c.key)
    ELSE ReplaceOrInsert(h, tree, c.key, c.value)

\* Node i has after the call the fields it had, and its children sequence
\* the storage and the nodes it had.
Untouched(h0, h1, i) ==
    /\ h1.nodes[i] = h0.nodes[i]
    /\ Elems(h1, h1.nodes[i].children) = Elems(h0, h0.nodes[i].children)

\* C24: a call on a tree writes the fields and the children storage of the
\* nodes its context owns only, and no children storage is shared between a
\* node the context of a tree owns and a node another context owns.
C24_SharingRule ==
    /\ \A t \in 1..Len(trees) : \A i, j \in 1..Len(heap.nodes) :
          /\ heap.nodes[i].cow = trees[t].cow
          /\ heap.nodes[j].cow # trees[t].cow
          /\ heap.nodes[i].children.arr # 0
          => heap.nodes[i].children.arr # heap.nodes[j].children.arr
    /\ Running =>
          \A t \in 1..Len(trees) : \A c \in CloneCalls :
              With(Call(heap, trees[t], c), LAMBDA r :
                  ~r.fault =>
                      \A i \in 1..Len(heap.nodes) :
                          heap.nodes[i].cow # trees[t].cow => Untouched(heap, r.h, i))

\* The nodes a call with `key` goes down through, from the top-level child
\* with the key's first byte on: the next one is looked for while the
\* node's prefix is a proper beginning of what is left of the key.
RECURSIVE Path(_, _, _)
Path(h, sl, key) ==
    IF key = <<>> THEN <<>>
    ELSE With(findNode(h, sl, key[1]), LAMBDA f :
             IF f.fault \/ f.child = NilNode THEN <<>>
             ELSE IF Len(h.nodes[f.child].prefix) < Len(key)
                     /\ IsPrefix(h.nodes[f.child].prefix, key)
             THEN <<f.child>> \o Path(h, h.nodes[f.child].children,
                                      From(key, Len(h.nodes[f.child].prefix)))
             ELSE <<f.child>>)

NodesOf(h, tree) == Range(Reach(h, Elems(h, tree.children), <<>>))

\* The tree's context owns no node: nothing was written through it since
\* the Clone that made it.
Fresh(t) == \A i \in 1..Len(heap.nodes) : heap.nodes[i].cow # trees[t].cow

\* C25: Clone copies no node; the first call on a tree after a Clone makes
\* new nodes for nodes of the path of its key only (and for the leaf and the
\* split it adds); every other node of the tree is after the call the same
\* node, unchanged, that the other tree reaches, except the child a Delete
\* merges into its parent on the path; a copy holds the children of its
\* original.
C25_LazyCopy ==
    Running =>
        \A t \in 1..Len(trees) :
            /\ Clone(heap, trees[t], Len(trees) + 1, Len(trees) + 2).h.nodes = heap.nodes
            /\ Fresh(t) =>
                  /\ \A c \in CloneCalls :
                        With(Call(heap, trees[t], c), LAMBDA r :
                        With(Path(heap, trees[t].children, c.key), LAMBDA path :
                            ~r.fault =>
                                /\ Len(r.h.nodes) <= Len(heap.nodes) + Len(path) + 2
                                /\ \A i \in NodesOf(r.h, r.tree) :
                                      i <= Len(heap.nodes) =>
                                          /\ i \in NodesOf(heap, trees[t])
                                          /\ ~InSeq(path, i)
                                          /\ Untouched(heap, r.h, i)
                                /\ \A i \in NodesOf(heap, trees[t]) :
                                      \/ InSeq(path, i)
                                      \/ i \in NodesOf(r.h, r.tree)
                                      \/ /\ c.op = "Delete"
                                         /\ \E p \in Range(path) :
                                               InSeq(Elems(heap, heap.nodes[p].children), i)))
                  /\ \A n \in NodesOf(heap, trees[t]) :
                        With(mutableFor(heap, n, trees[t].cow), LAMBDA m :
                            /\ m.node > Len(heap.nodes)
                            /\ Untouched(heap, m.h, n)
                            /\ Elems(m.h, m.h.nodes[m.node].children)
                                  = Elems(heap, heap.nodes[n].children)
                            /\ m.h.nodes[m.node].children.arr # heap.nodes[n].children.arr
                                  \/ heap.nodes[n].children.arr = 0)

\* C25: a snapshot not written yet, of a tree three levels deep.
C25_Witness ==
    /\ Running
    /\ \E t \in 1..Len(trees) :
          /\ Len(trees) >= 2
          /\ Fresh(t)
          /\ Cardinality(NodesOf(heap, trees[t])) >= 3
          /\ Len(Path(heap, trees[t].children, <<1, 1>>)) = 2

\* C27: in every tree ReBuildTree returns without error for a stream of
\* records that balance, each children sequence has non-empty prefixes with
\* strictly ascending first bytes.
C27_DecodedTreeOrdered ==
    rebuilt.done /\ rebuilt.err = "" /\ Balanced(Records(stream.bytes)) =>
        \A sl \in ChildrenSeqs(rebuilt.h, rebuilt.tree) : Ordered(rebuilt.h, sl)

\* C26: for every stream, both goroutines of ReBuildTree eventually finish:
\* the consumer has returned and the producer has closed the channel and
\* ended (or a panic has ended the program).
C26_BothFinish ==
    <>(panic # NoPanic \/ (pipe.cpc = "done" /\ pipe.pc = "closed"))

\* The producer stopped at a send on the full channel that the consumer,
\* having returned, will never receive from.
ProducerStuck ==
    /\ pipe.cpc = "done"
    /\ pipe.pc \in {"send", "last"}
    /\ Len(pipe.ch) = ChanCap

\* Every run ends in one of the two ways.
FinishOrStuck ==
    <>(panic # NoPanic \/ (pipe.cpc = "done" /\ pipe.pc = "closed") \/ ProducerStuck)

\* C30: every call of freeNode or newNode on the FreeList returns: a
\* goroutine inside one of them is eventually outside again, so the mutex a
\* freeNode locked is unlocked for the calls after it.
C30_PoolCallsReturn ==
    \A c \in Callers : (pool.pc[c] # "idle") ~> (pool.pc[c] = "idle")

\* The calls of newNode alone all return.
NewNodeReturns ==
    \A c \in Callers :
        (pool.pc[c] = "newNode:55" /\ \A d \in Callers : pool.pc[d] \notin {"freeNode:70", "freeNode:73"})
            ~> (pool.pc[c] = "idle" \/ \E d \in Callers : pool.pc[d] \in {"freeNode:70", "freeNode:73"})

\* C29: on the legacy tree, after the nine calls of the scenario Walk
\* yields exactly "aaacccddd", and after any calls of Insert and Delete,
\* merging ones included, Walk yields the keys inserted and not deleted
\* since, each once, and no call fails.
C29_LegacyDeleteMerge ==
    /\ ~legacy.fault
    /\ legacy.script = Len(Scenario) => RTree_Walk(legacy.children) = <<aaa \o ccc \o ddd>>
    /\ Range(RTree_Walk(legacy.children)) = legacy.keys
    /\ Len(RTree_Walk(legacy.children)) = Cardinality(legacy.keys)

\* The scenario's part alone, and what Walk yields at its end.
ScenarioYieldsLastKey ==
    legacy.script = Len(Scenario) => RTree_Walk(legacy.children) = <<aaa \o ccc \o ddd>>

ScenarioYieldsAaa ==
    legacy.script = Len(Scenario) => RTree_Walk(legacy.children) = <<aaa>>

\* C28: when the caller overwrites the bytes of the slice it called Insert
\* or ReplaceOrInsert with, what Walk yields and what Find returns for every
\* key stay as they were.
C28_NoKeyAliasing ==
    [][caller'.buf # caller.buf =>
          /\ Walk(heap', trees'[1]) = Walk(heap, trees[1])
          /\ \A k \in Lines : Find(heap', trees'[1], k) = Find(heap, trees[1], k)]_vars

====
